---- MODULE Spec2Model ----
(***************************************************************************)
(* A model of the post-simulation analysis code of PoPKAT                  *)
(* (client/src/main/python): the identifier map of PoPKATData, the         *)
(* identifier derivation and the output-column parser of gen_utils, and    *)
(* the ensemble statistics of MCAnalyzer.                                  *)
(*                                                                         *)
(* Python strings are modelled as sequences of one-character strings, so   *)
(* that splitting, padding, comparing and pattern matching are computed    *)
(* character by character as the interpreter computes them.                *)
(***************************************************************************)
EXTENDS Integers, Sequences, FiniteSets, TLC

VARIABLES
    unit,           \* the part of the program a run exercises
    \* PoPKATData (analyze/popkatdata.py)
    pkdata_ids,     \* the keys of sim_specs["pkdata"], in the dict's own order
    constructed,    \* whether PoPKATData.__init__ has run
    id_map,         \* self.id_map: a dict, as the sequence of its (key, value) items
    rev_id_map,     \* self.rev_id_map
    lookup,         \* the last call of sim_rnum_to_data_id / data_id_to_sim_rnum
    analyzer_call,  \* the last _extract_id or _process_data call and its outcome
    \* gen_utils.update_id
    hvar,           \* the argument of update_id
    id_out,         \* what update_id returned for it
    \* PoPKATData._create_id_mapping, line 51
    npop,           \* len(data_ids)
    sim_rnum,       \* the list of run identifiers built for 1..npop
    \* gen_utils.extract_name_and_level
    parse_out,      \* the last call: arguments and outcome
    \* MCAnalyzer._process_sim, the loop over the columns of one file
    col_names,      \* the columns still to be visited
    cols_done,      \* the columns visited
    outvars,        \* the set outvars / all_outvars
    col_out,        \* what extract_name_and_level returned for the last column
    \* MCAnalyzer._calc_confint
    ndf,            \* the ensemble matrix: rows are draws, columns are times
    quants,         \* the quantile triple, each in units of 1/QDen
    confint,        \* the outcome of _calc_confint
    \* pkcalcs (analyze/pkcalcs.py)
    pk_t,           \* the times of one curve
    pk_C,           \* its concentrations
    svd_raises,     \* the build: whether lstsq raises on a matrix that holds a nan
    pk_out,         \* the last call of a pkcalcs function: arguments and outcome
    \* MCAnalyzer._plot_pk_residuals and _calc_df_diff, for one output variable
    sdf,            \* the simulation records of the variable: (ident, time, dep_var)
    ddf,            \* the data records of the variable
    diff_df,        \* what _calc_df_diff returned
    plotted,        \* the records handed to geom_point
    fwd_diff_df,    \* what FwdAnalyzer._calc_df_diff returned
    \* MCAnalyzer._process_sim, the loop over the output files
    mc_outfiles,    \* the files still to be read
    files_done,     \* how many files were read
    file_ids,       \* what _extract_id returned for each file read, in order
    all_sim_df,     \* the records appended so far
    pk_params,      \* the PK parameter records appended so far
    sim_df_len,     \* the number of rows of the frame sim_df (0: still empty)
    sim_status,     \* "running", "returned", or the error raised
    \* pd.melt in FwdAnalyzer._process_sim and MCAnalyzer._calc_pk_params_tidy
    wide_df,        \* the table handed to melt
    tidy_df,        \* the long table it returned
    \* SensitivityAnalysis.calc_sensitivity
    setpts_outfile, \* the argument of calc_sensitivity
    setpts_Y,       \* the PK parameters computed from the file it names
    mparams,        \* self._problem["names"]
    pk_cols,        \* the columns of pk_params still to be analysed
    Si_S2,          \* Si["S2"] of the last column analysed
    sa_main,        \* the main and total effect records appended so far
    sa_interact,    \* the interaction records appended so far
    sens_status,    \* "running", "returned", or the error raised
    sa_results,     \* self._sa_results
    sa_calls,       \* how often calc_sensitivity was called
    sa_files,       \* the tables write_results wrote to the files of save_dir
    \* workflows.sens_analysis and SensitivityAnalysis.__init__
    sa_method,      \* the argument method of SensitivityAnalysis
    setpts_file,    \* the lines of the setpoints file: marked or not, and the text
    wf_pc,          \* where sens_analysis stands, or the error that ended it
    sa_pair,        \* the names of the modules self._sampler and self._analyzer
    sa_problem,     \* self._problem
    ctor_calls,     \* how often SensitivityAnalysis was constructed
    samples_written, \* how often write_samples wrote the sample file
    sims_run,       \* how often _run_sim was called
    code_executed,  \* whether text of the setpoints file was run as code
    \* workflows.setpts_analysis
    geninfo_sim_id, \* SimInfo.sim_geninfo["sim_id"]
    sp_files,       \* glob of the posteriors directory: the stems, split at "_"
    sp_next,        \* the index of the posterior the loop takes next
    sim_infiles,    \* sim_infiles
    sim_outfiles,   \* sim_outfiles
    infile_disk,    \* the input files on disk, each with the index of its posterior
    overwritten,    \* a write has replaced the input file of another posterior
    setpts_outfiles, \* the list handed to setpoints.analyze
    sp_pc,          \* where setpts_analysis stands
    \* utils.shared.SimInfo
    shared_state,   \* SimInfo._shared_state, the __dict__ of every instance
    n_instances,    \* how many SimInfo objects were constructed
    stored          \* the last value stored through a setter, per attribute

idVars    == <<pkdata_ids, constructed, id_map, rev_id_map, lookup, analyzer_call>>
levelVars == <<hvar, id_out>>
rnumVars  == <<npop, sim_rnum>>
parseVars == <<parse_out>>
procVars  == <<col_names, cols_done, outvars, col_out>>
confVars  == <<ndf, quants, confint>>
pkVars    == <<pk_t, pk_C, svd_raises, pk_out>>
diffVars  == <<sdf, ddf, diff_df, plotted, fwd_diff_df>>
simVars   == <<mc_outfiles, files_done, file_ids, all_sim_df, pk_params, sim_df_len, sim_status>>
tidyVars  == <<wide_df, tidy_df>>
sensVars  == <<setpts_outfile, setpts_Y, mparams, pk_cols, Si_S2, sa_main, sa_interact,
              sens_status, sa_results, sa_calls, sa_files>>
setupVars == <<sa_method, setpts_file, wf_pc, sa_pair, sa_problem, ctor_calls, samples_written, sims_run, code_executed>>
setptsVars == <<geninfo_sim_id, sp_files, sp_next, sim_infiles, sim_outfiles, infile_disk, overwritten, setpts_outfiles, sp_pc>>
simInfoVars == <<shared_state, n_instances, stored>>
vars == <<unit, idVars, levelVars, rnumVars, parseVars, procVars, confVars,
          pkVars, diffVars, simVars, tidyVars, sensVars, setupVars, setptsVars, simInfoVars>>

----------------------------------------------------------------------------
(* Bounds of the model *)

MaxSubjects == 4
MaxLevelLen == 4
MaxPop == 101
MaxNameLen == 2
MaxChainLevelLen == 3
MaxSubIndexLen == 2
MaxRawLen == 3
MaxCols == 2
MaxDraws == 3
MaxTimes == 2
MaxPoints == 3
MaxTime == 3
MaxSimPoints == 2
MaxObs == 2
MaxRows == 2
MaxFiles == 2
MaxParams == 3
MaxNames == 1
MaxLines == 2
MaxCalls == 2

----------------------------------------------------------------------------
(* Python strings *)

\* The characters the model uses, in code-point order.
CharTable ==
    << "(", ")", "+", "-", ".", "0", "1", "2", "3", "4", "5", "6", "7", "8", "9",
       "C", "T", "_", "a", "b", "c", "e", "i", "l", "m", "n", "o", "p", "r", "s", "t" >>

Ord(c) == CHOOSE i \in DOMAIN CharTable : CharTable[i] = c

Digits == {"0", "1", "2", "3", "4", "5", "6", "7", "8", "9"}

\* str < str: code-point lexicographic order, a proper prefix comes first.
StrLess(a, b) ==
    \E k \in 1..(Len(b)) :
        /\ \A j \in 1..(k - 1) : j <= Len(a) /\ a[j] = b[j]
        /\ k - 1 <= Len(a)
        /\ \/ k = Len(a) + 1
           \/ k <= Len(a) /\ Ord(a[k]) < Ord(b[k])

Range(s) == {s[i] : i \in DOMAIN s}

\* All sequences over S of length at most n.
SeqsUpTo(S, n) == UNION {[1..k -> S] : k \in 0..n}

\* Python's None, kept apart from every string.
None == << "<None>" >>

\* str(i) for i >= 0
DigitChar(d) == << "0", "1", "2", "3", "4", "5", "6", "7", "8", "9" >>[d + 1]

RECURSIVE IntToStr(_)
IntToStr(i) ==
    IF i < 10 THEN << DigitChar(i) >>
    ELSE IntToStr(i \div 10) \o << DigitChar(i % 10) >>

Contains(s, c) == \E i \in DOMAIN s : s[i] = c

\* s.split(sep) for a one-character separator
RECURSIVE Split(_, _)
Split(s, sep) ==
    IF ~Contains(s, sep) THEN << s >>
    ELSE LET i == CHOOSE k \in DOMAIN s :
                      s[k] = sep /\ \A j \in 1..(k - 1) : s[j] # sep
         IN  << SubSeq(s, 1, i - 1) >> \o Split(SubSeq(s, i + 1, Len(s)), sep)

Zeros(n) == [i \in 1..n |-> "0"]

\* s.zfill(width): zeros go after a leading sign
Zfill(s, width) ==
    IF Len(s) >= width THEN s
    ELSE IF Len(s) > 0 /\ s[1] \in {"+", "-"}
         THEN << s[1] >> \o Zeros(width - Len(s)) \o Tail(s)
         ELSE Zeros(width - Len(s)) \o s

----------------------------------------------------------------------------
(* Python dicts: the sequence of (key, value) items in insertion order *)

DictKeys(d) == {d[i][1] : i \in DOMAIN d}

\* d[k] = v
DictSet(d, k, v) ==
    IF k \in DictKeys(d)
    THEN [i \in DOMAIN d |-> IF d[i][1] = k THEN << k, v >> ELSE d[i]]
    ELSE Append(d, << k, v >>)

\* d[k]: the value, or KeyError
DictGet(d, k) ==
    IF k \in DictKeys(d)
    THEN [kind |-> "ok", val |-> d[CHOOSE i \in DOMAIN d : d[i][1] = k][2]]
    ELSE [kind |-> "KeyError", val |-> k]

\* d.get(k, k)
DictGetOrSelf(d, k) ==
    IF k \in DictKeys(d)
    THEN [kind |-> "ok", val |-> d[CHOOSE i \in DOMAIN d : d[i][1] = k][2]]
    ELSE [kind |-> "ok", val |-> k]

\* dict(items)
RECURSIVE DictFrom(_)
DictFrom(items) ==
    IF items = << >> THEN << >>
    ELSE LET n == Len(items)
         IN  DictSet(DictFrom(SubSeq(items, 1, n - 1)), items[n][1], items[n][2])

\* zip(a, b)
Zip(a, b) ==
    LET n == IF Len(a) < Len(b) THEN Len(a) ELSE Len(b)
    IN  [i \in 1..n |-> << a[i], b[i] >>]

\* sorted(list) of strings
RECURSIVE Insert(_, _)
Insert(sorted, x) ==
    IF sorted = << >> THEN << x >>
    ELSE IF StrLess(x, Head(sorted)) THEN << x >> \o sorted
         ELSE << Head(sorted) >> \o Insert(Tail(sorted), x)

\* a sort that is left out: the list in the order it came
Sorted_unsorted(list) == list

RECURSIVE Sorted(_)
Sorted(list) ==
    IF list = << >> THEN << >>
    ELSE Insert(Sorted(SubSeq(list, 1, Len(list) - 1)), list[Len(list)])

----------------------------------------------------------------------------
(* config/consts.py *)

POPULATION_KEYWORD == << "p", "o", "p" >>

----------------------------------------------------------------------------
(* gen_utils.update_id *)

\* the component before the dot taken for the one after it
update_id_first(h) ==
    IF ~Contains(h, ".") THEN POPULATION_KEYWORD
    ELSE << "s" >> \o Zfill(Split(h, ".")[1], 2)

update_id(h) ==
    IF ~Contains(h, ".") THEN POPULATION_KEYWORD
    ELSE << "s" >> \o Zfill(Split(h, ".")[2], 2)

----------------------------------------------------------------------------
(* PoPKATData *)

\* line 51: [update_id(f".{i}") for i in range(1, len(data_ids) + 1)]
SimRnums(n) == [i \in 1..n |-> update_id(<< "." >> \o IntToStr(i))]

_create_id_mapping(pkdata_keys, add_pop) ==
    LET data_ids == Sorted(pkdata_keys)
        rnums == SimRnums(Len(data_ids))
        m == DictFrom(Zip(rnums, data_ids))
    IN  IF add_pop THEN DictSet(m, POPULATION_KEYWORD, POPULATION_KEYWORD) ELSE m

\* {v: k for k, v in id_map.items()}
RECURSIVE Reversed(_)
Reversed(items) ==
    IF items = << >> THEN << >>
    ELSE LET n == Len(items)
         IN  DictSet(Reversed(SubSeq(items, 1, n - 1)), items[n][2], items[n][1])

\* bool(self.pkdata)
PkdataTruthy == pkdata_ids # << >>

sim_rnum_to_data_id_default(r) ==
    IF PkdataTruthy THEN DictGetOrSelf(id_map, r) ELSE [kind |-> "ok", val |-> r]

sim_rnum_to_data_id(r) ==
    IF PkdataTruthy THEN DictGet(id_map, r) ELSE [kind |-> "ok", val |-> r]

data_id_to_sim_rnum(d) ==
    IF PkdataTruthy THEN DictGet(rev_id_map, d) ELSE [kind |-> "ok", val |-> d]

\* The dataset subject ids and the lookup arguments the model draws from.
SubjectIdPool ==
    { << "a" >>, << "b" >>, << "a", "b" >>, << "1", "0" >>,
      << "s", "0", "2" >>, << "p", "o", "p" >> }

LookupArgs ==
    SubjectIdPool \union
    { << "s", "0", "1" >>, << "s", "0", "3" >>, << "s", "0", "4" >>,
      << "s", "0", "5" >>, << "s", "9", "9" >>, << "c" >> }

IsInjective(s) == \A i, j \in DOMAIN s : s[i] = s[j] => i = j

NoLookup == [op |-> "none", arg |-> << >>, out |-> [kind |-> "none", val |-> << >>]]

IdInit ==
    /\ pkdata_ids \in {s \in SeqsUpTo(SubjectIdPool, MaxSubjects) : IsInjective(s)}
    /\ constructed = FALSE
    /\ id_map = << >>
    /\ rev_id_map = << >>
    /\ lookup = NoLookup
    /\ analyzer_call = NoLookup

IdIdle ==
    /\ pkdata_ids = << >>
    /\ constructed = FALSE
    /\ id_map = << >>
    /\ rev_id_map = << >>
    /\ lookup = NoLookup
    /\ analyzer_call = NoLookup

\* PoPKATData.__init__
Construct ==
    /\ unit = "id"
    /\ ~constructed
    /\ constructed' = TRUE
    /\ id_map' = _create_id_mapping(pkdata_ids, TRUE)
    /\ rev_id_map' = Reversed(id_map')
    /\ UNCHANGED << pkdata_ids, lookup, analyzer_call >>
    /\ UNCHANGED << unit, levelVars, rnumVars, parseVars, procVars, confVars,
                 pkVars, diffVars, simVars, tidyVars, sensVars, setupVars, setptsVars, simInfoVars >>

CallSimRnumToDataId ==
    /\ unit = "id"
    /\ constructed
    /\ \E r \in LookupArgs :
           lookup' = [op |-> "sim_rnum_to_data_id", arg |-> r,
                      out |-> sim_rnum_to_data_id(r)]
    /\ UNCHANGED << pkdata_ids, constructed, id_map, rev_id_map, analyzer_call >>
    /\ UNCHANGED << unit, levelVars, rnumVars, parseVars, procVars, confVars,
                 pkVars, diffVars, simVars, tidyVars, sensVars, setupVars, setptsVars, simInfoVars >>

CallDataIdToSimRnum ==
    /\ unit = "id"
    /\ constructed
    /\ \E d \in LookupArgs :
           lookup' = [op |-> "data_id_to_sim_rnum", arg |-> d,
                      out |-> data_id_to_sim_rnum(d)]
    /\ UNCHANGED << pkdata_ids, constructed, id_map, rev_id_map, analyzer_call >>
    /\ UNCHANGED << unit, levelVars, rnumVars, parseVars, procVars, confVars,
                 pkVars, diffVars, simVars, tidyVars, sensVars, setupVars, setptsVars, simInfoVars >>

\* list(self._id_map.keys()): a new list holding the keys of the dict
KeysList(d) == [i \in DOMAIN d |-> d[i][1]]

\* File names as _extract_id sees them: the identifier its regex finds in the
\* name, << >> when it finds none
FileIdentPool ==
    { << >>, << "s", "0", "1" >>, << "p", "o", "p" >> }

\* ids.pop() taken on the dict itself instead of on a list built from its keys
ExtractIdEffect_aliased(m, ident) ==
    IF ident # << >>
    THEN [id_ |-> ident, id_map |-> m]
    ELSE [id_ |-> m[Len(m)][1], id_map |-> SubSeq(m, 1, Len(m) - 1)]

\* MCAnalyzer._extract_id on the map m: the identifier returned and the map
\* afterwards.  ids is a list built from the keys, and ids.pop() shortens that
\* list only.
ExtractIdEffect(m, ident) ==
    LET ids == KeysList(m)
    IN  IF ident # << >>
        THEN [id_ |-> ident, id_map |-> m]
        ELSE [id_ |-> ids[Len(ids)], id_map |-> m]

\* MCAnalyzer._process_data, the identifiers: one data_id_to_sim_rnum call per
\* key of pkdata, in order; the first KeyError ends the loop
RECURSIVE ProcessDataIds(_, _)
ProcessDataIds(keys, acc) ==
    IF keys = << >> THEN [kind |-> "ok", val |-> acc]
    ELSE LET r == data_id_to_sim_rnum(Head(keys))
         IN  IF r.kind # "ok" THEN [kind |-> r.kind, val |-> acc]
             ELSE ProcessDataIds(Tail(keys), Append(acc, r.val))

\* MCAnalyzer._extract_id(fpath), as _process_sim calls it for each file
CallExtractId ==
    /\ unit = "id"
    /\ constructed
    /\ \E ident \in FileIdentPool :
           LET e == ExtractIdEffect(id_map, ident)
           IN  /\ analyzer_call' = [op |-> "_extract_id", arg |-> ident,
                                    out |-> [kind |-> "ok", val |-> e.id_]]
               /\ id_map' = e.id_map
    /\ UNCHANGED << pkdata_ids, constructed, rev_id_map, lookup >>
    /\ UNCHANGED << unit, levelVars, rnumVars, parseVars, procVars, confVars,
                 pkVars, diffVars, simVars, tidyVars, sensVars, setupVars, setptsVars, simInfoVars >>

\* MCAnalyzer._process_data: the identifiers of the observed records
CallProcessData ==
    /\ unit = "id"
    /\ constructed
    /\ analyzer_call' = [op |-> "_process_data", arg |-> << >>,
                         out |-> ProcessDataIds(pkdata_ids, << >>)]
    /\ UNCHANGED << pkdata_ids, constructed, id_map, rev_id_map, lookup >>
    /\ UNCHANGED << unit, levelVars, rnumVars, parseVars, procVars, confVars,
                 pkVars, diffVars, simVars, tidyVars, sensVars, setupVars, setptsVars, simInfoVars >>

----------------------------------------------------------------------------
(* update_id on its own *)

\* Levels are written with digits and dots (the level group of the column
\* patterns, and f".{i}").
LevelChars == {"0", "1", "2", "."}

LevelInit ==
    /\ hvar \in SeqsUpTo(LevelChars, MaxLevelLen)
    /\ id_out = None

LevelIdle ==
    /\ hvar = << >>
    /\ id_out = None

CallUpdateId ==
    /\ unit = "level"
    /\ id_out = None
    /\ id_out' = update_id(hvar)
    /\ UNCHANGED hvar
    /\ UNCHANGED << unit, idVars, rnumVars, parseVars, procVars, confVars,
                 pkVars, diffVars, simVars, tidyVars, sensVars, setupVars, setptsVars, simInfoVars >>

----------------------------------------------------------------------------
(* The run identifiers of a population of npop subjects *)

RnumInit ==
    /\ npop \in 1..MaxPop
    /\ sim_rnum = << >>

RnumIdle ==
    /\ npop = 0
    /\ sim_rnum = << >>

AssignSimRnums ==
    /\ unit = "rnum"
    /\ sim_rnum = << >>
    /\ npop > 0
    /\ sim_rnum' = SimRnums(npop)
    /\ UNCHANGED npop
    /\ UNCHANGED << unit, idVars, levelVars, parseVars, procVars, confVars,
                 pkVars, diffVars, simVars, tidyVars, sensVars, setupVars, setptsVars, simInfoVars >>

----------------------------------------------------------------------------
(* gen_utils.extract_name_and_level *)

\* \w and \d over the model's characters
WordChars ==
    Digits \union
    {"C", "T", "_", "a", "b", "c", "e", "i", "l", "m", "n", "o", "p", "r", "s", "t"}

AllIn(s, a, b, S) == \A i \in a..b : s[i] \in S

\* What a regex search returns among the ways the pattern matches: the leftmost
\* start, then the longest \w+ (greedy), then the longest level.
Preferred(cands) ==
    CHOOSE c \in cands : \A d \in cands :
        \/ c[1] < d[1]
        \/ c[1] = d[1] /\ c[2] > d[2]
        \/ c[1] = d[1] /\ c[2] = d[2] /\ c[3] >= d[3]

\* (?P<name>\w+)_(?P<level>{toplevel}\.\d+): the name is col[s..e], the level
\* col[e+2..l]
McMatches(col, tl) ==
    { c \in (1..Len(col)) \X (1..Len(col)) \X (1..Len(col)) :
        LET s == c[1]
            e == c[2]
            l == c[3]
            dot == e + 2 + Len(tl)
        IN  /\ s <= e
            /\ AllIn(col, s, e, WordChars)
            /\ dot < l
            /\ col[e + 1] = "_"
            /\ SubSeq(col, e + 2, dot - 1) = tl
            /\ col[dot] = "."
            /\ AllIn(col, dot + 1, l, Digits) }

\* \d+ alone: the optional group left out
LevelRe_nodot(x) == Len(x) >= 1 /\ AllIn(x, 1, Len(x), Digits)

\* \d+(\.\d+)?
LevelRe(x) ==
    \E k \in 1..Len(x) :
        /\ AllIn(x, 1, k, Digits)
        /\ \/ k = Len(x)
           \/ /\ k + 2 <= Len(x)
              /\ x[k + 1] = "."
              /\ AllIn(x, k + 2, Len(x), Digits)

\* ((?P<name>\w+)\((?P<level>\d+(\.\d+)?)\))
McmcMatches(col) ==
    { c \in (1..Len(col)) \X (1..Len(col)) \X (1..Len(col)) :
        LET s == c[1]
            e == c[2]
            l == c[3]
        IN  /\ s <= e
            /\ AllIn(col, s, e, WordChars)
            /\ e + 2 <= l
            /\ l + 1 <= Len(col)
            /\ col[e + 1] = "("
            /\ LevelRe(SubSeq(col, e + 2, l))
            /\ col[l + 1] = ")" }

NoMatch == [kind |-> "ok", name |-> None, level |-> None]

Found(col, c) ==
    [kind |-> "ok", name |-> SubSeq(col, c[1], c[2]), level |-> SubSeq(col, c[2] + 2, c[3])]

\* a \d+ that stops after one digit
mc_search_lazy(col, toplevel) ==
    LET m == McMatches(col, IntToStr(toplevel))
    IN  IF m = {} THEN NoMatch
        ELSE LET c == Preferred(m)
             IN  Found(col, << c[1], c[2], c[2] + 2 + Len(IntToStr(toplevel)) + 1 >>)

mc_search(col, toplevel) ==
    LET m == McMatches(col, IntToStr(toplevel))
    IN  IF m = {} THEN NoMatch ELSE Found(col, Preferred(m))

mcmc_search(col) ==
    LET m == McmcMatches(col)
    IN  IF m = {} THEN NoMatch ELSE Found(col, Preferred(m))

\* sim_type_regex.get(sim_type, mc_regex): a default for an unknown sim_type
extract_name_and_level_default(col, sim_type, toplevel) ==
    IF sim_type = "mcmc" THEN mcmc_search(col) ELSE mc_search(col, toplevel)

extract_name_and_level(col, sim_type, toplevel) ==
    IF sim_type \notin {"mcmc", "mc"}
    THEN [kind |-> "KeyError", name |-> None, level |-> None]
    ELSE IF sim_type = "mcmc" THEN mcmc_search(col) ELSE mc_search(col, toplevel)

\* The column names the model draws from.
NameChars == {"C", "_", "1"}
Names ==
    (SeqsUpTo(NameChars, MaxNameLen) \ {<< >>})
        \union {<< "C", "_", "c", "e", "n", "t", "r", "a", "l" >>}
SubIndexes == SeqsUpTo({"1", "2"}, MaxSubIndexLen) \ {<< >>}
Toplevels == {1, 12}
SimTypes == {"mc", "mcmc", "fwd"}
ChainLevelChars == {"1", ".", "a", ")"}
ChainLevels == SeqsUpTo(ChainLevelChars, MaxChainLevelLen)

GridCol(name, T, K) == name \o << "_" >> \o IntToStr(T) \o << "." >> \o K
ChainCol(name, L) == name \o << "(" >> \o L \o << ")" >>

GridCols == {GridCol(n, T, K) : n \in Names, T \in Toplevels, K \in SubIndexes}
ChainCols == {ChainCol(n, L) : n \in Names, L \in ChainLevels}
RawCols == SeqsUpTo({"C", "_", "1", ".", "(", ")"}, MaxRawLen)
TimeCol == << "T", "i", "m", "e" >>
ColumnPool == GridCols \union ChainCols \union RawCols \union {TimeCol}

NotCalled == [kind |-> "none", name |-> None, level |-> None]

NoParse == [col |-> << >>, sim_type |-> "none", toplevel |-> 0, out |-> NotCalled]

\* the arguments of one call
ParseInit ==
    \E col \in ColumnPool, st \in SimTypes, T \in Toplevels :
        parse_out = [col |-> col, sim_type |-> st, toplevel |-> T, out |-> NotCalled]

ParseIdle == parse_out = NoParse

CallExtract ==
    /\ unit = "parse"
    /\ parse_out.sim_type # "none"
    /\ parse_out.out = NotCalled
    /\ parse_out' =
           [parse_out EXCEPT
               !.out = extract_name_and_level(parse_out.col, parse_out.sim_type,
                                              parse_out.toplevel)]
    /\ UNCHANGED << unit, idVars, levelVars, rnumVars, procVars, confVars,
                 pkVars, diffVars, simVars, tidyVars, sensVars, setupVars, setptsVars, simInfoVars >>

----------------------------------------------------------------------------
(* MCAnalyzer._process_sim: the columns of one output file *)

\* if name: (None and "" are falsy)
Truthy(name) == name # None /\ name # << >>

\* the guard left out: every column adds its name
AddOutvar_always(set, name) == set \union {name}

\* lines 164-166
AddOutvar(set, name) == IF Truthy(name) THEN set \union {name} ELSE set

\* toplevel=1 (MCAnalyzer.__init__)
ProcToplevel == 1

HeaderCols ==
    { TimeCol,
      << "C", "_", "1", ".", "1" >>,
      << "C", "_", "1", ".", "1", "2" >>,
      << "C", "a", "_", "1", ".", "2" >>,
      << "C", "_", "c", "e", "n", "t", "r", "a", "l", "_", "1", ".", "1", "2" >>,
      << "T", "i", "m", "e", "_", "1", ".", "1" >>,
      << "C", "_", "2", ".", "1" >>,
      << "C", "(", "1", ")" >>,
      << "C", "(", "1", ".", "1", ")" >>,
      << "1", ".", "1" >>,
      << "_", "1", ".", "1" >>,
      << "C", "_", "1", "." >> }

NoColOut == NotCalled

ProcInit ==
    /\ col_names \in SeqsUpTo(HeaderCols, MaxCols)
    /\ cols_done = << >>
    /\ outvars = {}
    /\ col_out = NoColOut

ProcIdle ==
    /\ col_names = << >>
    /\ cols_done = << >>
    /\ outvars = {}
    /\ col_out = NoColOut

\* one pass of "for c in col_names"
ProcessColumn ==
    /\ unit = "proc"
    /\ col_names # << >>
    /\ LET c == Head(col_names)
           r == extract_name_and_level(c, "mc", ProcToplevel)
       IN  /\ col_out' = r
           /\ outvars' = AddOutvar(outvars, r.name)
           /\ cols_done' = Append(cols_done, c)
    /\ col_names' = Tail(col_names)
    /\ UNCHANGED << unit, idVars, levelVars, rnumVars, parseVars, confVars,
                 pkVars, diffVars, simVars, tidyVars, sensVars, setupVars, setptsVars, simInfoVars >>

----------------------------------------------------------------------------
(* MCAnalyzer._calc_confint *)

\* Quantiles are rationals with denominator QDen (0.025 = 1/40), and the values
\* of p_interval are kept in units of 1/QDen, so that the interpolation is exact.
QDen == 40
QuantNums == {0, 1, 20, 39, 40}
ConcValues == {0, 1, 4}

RECURSIVE InsertInt(_, _)
InsertInt(sorted, x) ==
    IF sorted = << >> THEN << x >>
    ELSE IF x < Head(sorted) THEN << x >> \o sorted
         ELSE << Head(sorted) >> \o InsertInt(Tail(sorted), x)

RECURSIVE SortInts(_)
SortInts(list) ==
    IF list = << >> THEN << >>
    ELSE InsertInt(SortInts(SubSeq(list, 1, Len(list) - 1)), list[Len(list)])

\* One column's quantile qn/QDen, by linear interpolation between the two
\* nearest order statistics (the default of DataFrame.quantile), times QDen.
QuantileScaled(column, qn) ==
    LET sorted == SortInts(column)
        n == Len(sorted)
        pos == (n - 1) * qn
        lo == pos \div QDen
        frac == pos % QDen
        hi == IF lo + 1 <= n - 1 THEN lo + 1 ELSE lo
    IN  sorted[lo + 1] * QDen + (sorted[hi + 1] - sorted[lo + 1]) * frac

NumTimes(df) == Len(df[1])
Column(df, j) == [i \in DOMAIN df |-> df[i][j]]

\* df.quantile(q=quants, axis=0): one row per entry of quants, labelled by it
DfQuantile(df, q) ==
    [k \in DOMAIN q |->
        [label |-> q[k],
         vals |-> [j \in 1..NumTimes(df) |-> QuantileScaled(Column(df, j), q[k])]]]

\* p_interval.ix[label, :]: the rows that carry the label; one row comes back as
\* a vector (a Series), several as a table (a DataFrame)
IxRow(p_interval, label) ==
    LET hit == SelectSeq(p_interval, LAMBDA row : row.label = label)
        rows == [i \in DOMAIN hit |-> hit[i].vals]
    IN  [ndim |-> IF Len(rows) = 1 THEN 1 ELSE 2, rows |-> rows]

_calc_confint(df, q) ==
    LET p_interval == DfQuantile(df, q)
    IN  [kind |-> "ok",
         lower |-> IxRow(p_interval, q[1]),
         dep_var |-> IxRow(p_interval, q[2]),
         upper |-> IxRow(p_interval, q[3])]

NoFrame == [ndim |-> 0, rows |-> << >>]
NoConf == [kind |-> "none", lower |-> NoFrame, dep_var |-> NoFrame, upper |-> NoFrame]

Matrices ==
    UNION {[1..r -> [1..c -> ConcValues]] : r \in 1..MaxDraws, c \in 1..MaxTimes}

ConfInit ==
    /\ ndf \in Matrices
    /\ quants \in [1..3 -> QuantNums]
    /\ confint = NoConf

ConfIdle ==
    /\ ndf = << >>
    /\ quants = << >>
    /\ confint = NoConf

CallCalcConfint ==
    /\ unit = "conf"
    /\ confint = NoConf
    /\ ndf # << >>
    /\ confint' = _calc_confint(ndf, quants)
    /\ UNCHANGED << ndf, quants >>
    /\ UNCHANGED << unit, idVars, levelVars, rnumVars, parseVars, procVars,
                 pkVars, diffVars, simVars, tidyVars, sensVars, setupVars, setptsVars, simInfoVars >>

----------------------------------------------------------------------------
(* analyze/pkcalcs.py *)

\* Numbers are kept exact.  A quotient is the pair of its numerator and its
\* denominator; a zero denominator is what float division gives without
\* raising: inf, or nan for 0/0.  Concentrations are powers of two (or not
\* positive), so that np.log is an integer in units of ln 2; the fitted slope
\* and kelim are quotients in units of ln 2.
Rat(n, d) == [num |-> n, den |-> d]

DEF_NINTERP == 3

PkConcValues == {0 - 1, 0, 1, 2, 4}

\* np.log(c) / ln 2
Log2(c) == CASE c = 1 -> 0 [] c = 2 -> 1 [] c = 4 -> 2

\* F(v) for the value v of e: e is worked out once, as a local variable is
With(e, F(_)) == CHOOSE r \in {F(v) : v \in {e}} : TRUE

SumSeq(x) ==
    LET S[k \in 0..Len(x)] == IF k = 0 THEN 0 ELSE S[k - 1] + x[k]
    IN  S[Len(x)]

\* x[inds] for a boolean mask
Mask(x, inds) ==
    LET kept == SelectSeq([i \in DOMAIN x |-> i], LAMBDA i : inds[i])
    IN  [k \in DOMAIN kept |-> x[kept[k]]]

\* x[:n], the slice taken from the wrong end
HeadSlice(x, n) == IF n >= Len(x) THEN x ELSE SubSeq(x, 1, n)

\* x[-n:]
TailSlice(x, n) ==
    IF n = 0 \/ n >= Len(x) THEN x ELSE SubSeq(x, Len(x) - n + 1, Len(x))

\* np.trapz(y, x), times 2
trapz2(y, x) ==
    SumSeq([i \in 1..(Len(x) - 1) |-> (x[i + 1] - x[i]) * (y[i] + y[i + 1])])

\* the last index of the maximum
argmax_last(C) ==
    CHOOSE i \in DOMAIN C :
        /\ \A j \in DOMAIN C : C[j] <= C[i]
        /\ \A j \in (i + 1)..Len(C) : C[j] < C[i]

\* np.argmax(C): the first index of the maximum
argmax(C) ==
    CHOOSE i \in DOMAIN C :
        /\ \A j \in DOMAIN C : C[j] <= C[i]
        /\ \A j \in 1..(i - 1) : C[j] < C[i]

\* np.polyfit(x, y, 1)[0] for strictly increasing x.  No point: TypeError.  One
\* point: the matrix [[x, 1]] has rank 1 and lstsq gives the solution of least
\* norm of the column-scaled system, slope y/(2x); for x = 0 the scaling
\* divides 0 by 0 and lstsq is handed a nan, which it reports as LinAlgError or
\* passes on, depending on the build.
polyfit(x, y) ==
    LET n == Len(x)
        Sx == SumSeq(x)
        Sy == SumSeq(y)
        Sxy == SumSeq([i \in DOMAIN x |-> x[i] * y[i]])
        Sxx == SumSeq([i \in DOMAIN x |-> x[i] * x[i]])
    IN  IF n = 0 THEN [kind |-> "TypeError", slope |-> Rat(0, 0)]
        ELSE IF n = 1
             THEN IF x[1] = 0
                  THEN IF svd_raises
                       THEN [kind |-> "LinAlgError", slope |-> Rat(0, 0)]
                       ELSE [kind |-> "ok", slope |-> Rat(0, 0)]
                  ELSE [kind |-> "ok", slope |-> Rat(y[1], 2 * x[1])]
             ELSE [kind |-> "ok", slope |-> Rat(n * Sxy - Sx * Sy, n * Sxx - Sx * Sx)]

\* lines 82-84: the points with C > 0, and the logarithms of their C
Filtered(t, C) ==
    With([i \in DOMAIN C |-> C[i] > 0], LAMBDA inds :
        With(Mask(C, inds), LAMBDA C_ :
            [t |-> Mask(t, inds), lnC |-> [i \in DOMAIN C_ |-> Log2(C_[i])]]))

\* ke = -slope, with the arguments fit_t and fit_lnC that polyfit was handed
FitOf(fit_t, fit_lnC) ==
    With(polyfit(fit_t, fit_lnC), LAMBDA fit :
        [kind |-> fit.kind, val |-> Rat(0 - fit.slope.num, fit.slope.den),
         fit_t |-> fit_t, fit_lnC |-> fit_lnC])

\* the fit over the first points of the filtered series
calc_elim_rate_const_head(t, C, ninterp) ==
    With(Filtered(t, C), LAMBDA f :
        With(<< HeadSlice(f.t, ninterp), HeadSlice(f.lnC, ninterp) >>, LAMBDA w :
            FitOf(w[1], w[2])))

\* lines 80-89
calc_elim_rate_const(t, C, ninterp) ==
    With(Filtered(t, C), LAMBDA f :
        With(<< TailSlice(f.t, ninterp), TailSlice(f.lnC, ninterp) >>, LAMBDA w :
            FitOf(w[1], w[2])))

PkError(kind) == [kind |-> kind, val |-> << >>]

\* The area is trapz2 / 2 + tail / ln 2, with tail = C[-1] / kelim.
calc_AUC(t, C, inf, ninterp) ==
    With(calc_elim_rate_const(t, C, ninterp), LAMBDA elim_rate_const :
        LET ke == elim_rate_const.val
            AUC_tinf == IF inf THEN Rat(C[Len(C)] * ke.den, ke.num) ELSE Rat(0, 1)
        IN  IF elim_rate_const.kind # "ok" THEN PkError(elim_rate_const.kind)
            ELSE [kind |-> "ok", val |-> [trapz2 |-> trapz2(C, t), tail |-> AUC_tinf]])

calc_mean_residence_time(t, C, ninterp) ==
    With(calc_AUC(t, C, FALSE, ninterp), LAMBDA AUC :
        LET AUMC2 == trapz2([i \in DOMAIN C |-> C[i] * t[i]], t)
        IN  IF AUC.kind # "ok" THEN PkError(AUC.kind)
            ELSE [kind |-> "ok", val |-> Rat(AUMC2, AUC.val.trapz2)])

calc_tmax(t, C) == [kind |-> "ok", val |-> t[argmax(C)]]

calc_cmax(t, C) == [kind |-> "ok", val |-> C[argmax(C)]]

\* ln 2 / kelim
calc_elim_half_life(t, C, ninterp) ==
    With(calc_elim_rate_const(t, C, ninterp), LAMBDA elim_rate_const :
        IF elim_rate_const.kind # "ok" THEN PkError(elim_rate_const.kind)
        ELSE [kind |-> "ok",
              val |-> Rat(elim_rate_const.val.den, elim_rate_const.val.num)])

\* dose / AUC_inf, kept as the pair of its operands
calc_clearance(t, C, dose, ninterp) ==
    With(calc_AUC(t, C, TRUE, ninterp), LAMBDA AUC_inf :
        IF AUC_inf.kind # "ok" THEN PkError(AUC_inf.kind)
        ELSE [kind |-> "ok", val |-> [dose |-> dose, AUC_inf |-> AUC_inf.val]])

\* CL / kelim, kept as the pair of its operands
calc_volume_of_distribution(t, C, dose, ninterp) ==
    With(calc_elim_rate_const(t, C, ninterp), LAMBDA ke :
        With(calc_clearance(t, C, dose, ninterp), LAMBDA CL :
            IF ke.kind # "ok" THEN PkError(ke.kind)
            ELSE IF CL.kind # "ok" THEN PkError(CL.kind)
                 ELSE [kind |-> "ok", val |-> [CL |-> CL.val, ke |-> ke.val]]))

\* dose=None, or a number
NoDose == [none |-> TRUE, val |-> 0]
Dose(d) == [none |-> FALSE, val |-> d]

\* if dose: (None and 0 are falsy)
DoseTruthy(dose) == ~dose.none /\ dose.val # 0

\* the first call of a list that raised, or 0
FirstRaised(calls) ==
    LET bad == {i \in DOMAIN calls : calls[i][2].kind # "ok"}
    IN  IF bad = {} THEN 0 ELSE CHOOSE i \in bad : \A j \in bad : i <= j

\* The calls of lines 146-157 in their order; the first that raises ends the
\* function, otherwise the dict of their values is returned: its items in the
\* order of insertion, the keys being distinct.
calc_all_pk(t, C, dose, ninterp) ==
    With(<< << "AUC", calc_AUC(t, C, FALSE, ninterp) >>,
            << "AUC_inf", calc_AUC(t, C, TRUE, ninterp) >>,
            << "MRT", calc_mean_residence_time(t, C, ninterp) >>,
            << "tmax", calc_tmax(t, C) >>,
            << "Cmax", calc_cmax(t, C) >>,
            << "kelim", calc_elim_rate_const(t, C, ninterp) >>,
            << "t_half", calc_elim_half_life(t, C, ninterp) >> >>
         \o (IF DoseTruthy(dose)
             THEN << << "clearance", calc_clearance(t, C, dose.val, ninterp) >>,
                     << "volume_of_distribution",
                        calc_volume_of_distribution(t, C, dose.val, ninterp) >> >>
             ELSE << >>),
         LAMBDA calls :
            With(FirstRaised(calls), LAMBDA bad :
                IF bad # 0 THEN PkError(calls[bad][2].kind)
                ELSE [kind |-> "ok",
                      val |-> [i \in DOMAIN calls |->
                                  << calls[i][1], calls[i][2].val >>]]))

\* The curves the model draws from: strictly increasing times.
IsIncreasing(t) == \A i \in 1..(Len(t) - 1) : t[i] < t[i + 1]

Curves ==
    UNION { {c \in [t : [1..n -> 0..MaxTime], C : [1..n -> PkConcValues]] :
                IsIncreasing(c.t)} : n \in 1..MaxPoints }

NinterpValues == 1..DEF_NINTERP
DoseValues == {NoDose, Dose(0), Dose(2)}

NoArgs == [ninterp |-> 0, inf |-> FALSE, dose |-> NoDose]
NoPkCall == [op |-> "none", args |-> NoArgs, out |-> [kind |-> "none", val |-> << >>]]

PkInit ==
    /\ \E c \in Curves : pk_t = c.t /\ pk_C = c.C
    /\ svd_raises \in BOOLEAN
    /\ pk_out = NoPkCall

PkIdle ==
    /\ pk_t = << >>
    /\ pk_C = << >>
    /\ svd_raises = FALSE
    /\ pk_out = NoPkCall

CallCalcAUC ==
    /\ unit = "pk"
    /\ pk_out = NoPkCall
    /\ \E inf \in BOOLEAN, ninterp \in NinterpValues :
           pk_out' = [op |-> "calc_AUC",
                      args |-> [ninterp |-> ninterp, inf |-> inf, dose |-> NoDose],
                      out |-> calc_AUC(pk_t, pk_C, inf, ninterp)]
    /\ UNCHANGED << pk_t, pk_C, svd_raises >>
    /\ UNCHANGED << unit, idVars, levelVars, rnumVars, parseVars, procVars, confVars,
                 diffVars, simVars, tidyVars, sensVars, setupVars, setptsVars, simInfoVars >>

CallCalcElimRateConst ==
    /\ unit = "pk"
    /\ pk_out = NoPkCall
    /\ \E ninterp \in NinterpValues :
           pk_out' = [op |-> "calc_elim_rate_const",
                      args |-> [ninterp |-> ninterp, inf |-> FALSE, dose |-> NoDose],
                      out |-> calc_elim_rate_const(pk_t, pk_C, ninterp)]
    /\ UNCHANGED << pk_t, pk_C, svd_raises >>
    /\ UNCHANGED << unit, idVars, levelVars, rnumVars, parseVars, procVars, confVars,
                 diffVars, simVars, tidyVars, sensVars, setupVars, setptsVars, simInfoVars >>

CallCalcTmax ==
    /\ unit = "pk"
    /\ pk_out = NoPkCall
    /\ pk_out' = [op |-> "calc_tmax", args |-> NoArgs, out |-> calc_tmax(pk_t, pk_C)]
    /\ UNCHANGED << pk_t, pk_C, svd_raises >>
    /\ UNCHANGED << unit, idVars, levelVars, rnumVars, parseVars, procVars, confVars,
                 diffVars, simVars, tidyVars, sensVars, setupVars, setptsVars, simInfoVars >>

CallCalcCmax ==
    /\ unit = "pk"
    /\ pk_out = NoPkCall
    /\ pk_out' = [op |-> "calc_cmax", args |-> NoArgs, out |-> calc_cmax(pk_t, pk_C)]
    /\ UNCHANGED << pk_t, pk_C, svd_raises >>
    /\ UNCHANGED << unit, idVars, levelVars, rnumVars, parseVars, procVars, confVars,
                 diffVars, simVars, tidyVars, sensVars, setupVars, setptsVars, simInfoVars >>

\* FwdAnalyzer._calc_pk_params calls calc_all_pk(t, C); a dose is the caller's
CallCalcAllPk ==
    /\ unit = "pk"
    /\ pk_out = NoPkCall
    /\ \E dose \in DoseValues :
           pk_out' = [op |-> "calc_all_pk",
                      args |-> [ninterp |-> DEF_NINTERP, inf |-> FALSE, dose |-> dose],
                      out |-> calc_all_pk(pk_t, pk_C, dose, DEF_NINTERP)]
    /\ UNCHANGED << pk_t, pk_C, svd_raises >>
    /\ UNCHANGED << unit, idVars, levelVars, rnumVars, parseVars, procVars, confVars,
                 diffVars, simVars, tidyVars, sensVars, setupVars, setptsVars, simInfoVars >>

----------------------------------------------------------------------------
(* MCAnalyzer._calc_df_diff and _plot_pk_residuals *)

\* Series.unique(): the values in the order of their first appearance
RECURSIVE Unique(_)
Unique(x) ==
    IF x = << >> THEN << >>
    ELSE LET u == Unique(SubSeq(x, 1, Len(x) - 1))
             last == x[Len(x)]
         IN  IF last \in Range(u) THEN u ELSE Append(u, last)

\* np.interp(x, xp, fp) for increasing xp: linear between the sample points,
\* the first or the last sample value outside them
np_interp(x, xp, fp) ==
    LET n == Len(xp)
    IN  IF x <= xp[1] THEN Rat(fp[1], 1)
        ELSE IF x >= xp[n] THEN Rat(fp[n], 1)
             ELSE LET j == CHOOSE k \in 1..(n - 1) : xp[k] <= x /\ x < xp[k + 1]
                      D == xp[j + 1] - xp[j]
                  IN  Rat(fp[j] * D + (fp[j + 1] - fp[j]) * (x - xp[j]), D)

\* the difference taken the other way round
RelDiff_reversed(val_dat, val_interp) ==
    Rat(val_interp.num - val_dat * val_interp.den, val_interp.den * val_dat)

\* (vals_dat - vals_interp) / vals_dat, one element: a Series division does
\* not raise on a zero divisor
RelDiff(val_dat, val_interp) ==
    Rat(val_dat * val_interp.den - val_interp.num, val_interp.den * val_dat)

\* lines 421-441
_calc_df_diff(sim_df, data_df, ov) ==
    LET idents == Unique([i \in DOMAIN sim_df |-> sim_df[i].ident])
        ForIdent(ident) ==
            LET ddf_ == SelectSeq(data_df, LAMBDA r : r.ident = ident)
                sdf_ == SelectSeq(sim_df, LAMBDA r : r.ident = ident)
                t_sim == [i \in DOMAIN sdf_ |-> sdf_[i].time]
                vals_sim == [i \in DOMAIN sdf_ |-> sdf_[i].dep_var]
            IN  [i \in DOMAIN ddf_ |->
                    [time |-> ddf_[i].time,
                     dep_var_diff |->
                         RelDiff(ddf_[i].dep_var,
                                 np_interp(ddf_[i].time, t_sim, vals_sim)),
                     ident |-> ident,
                     measure |-> ov]]
        Rows[k \in 0..Len(idents)] ==
            IF k = 0 THEN << >> ELSE Rows[k - 1] \o ForIdent(idents[k])
    IN  Rows[Len(idents)]

\* FwdAnalyzer._calc_df_diff, forward.py lines 209-221: one pass per identifier
\* of sim_df, each on the whole of data_df and of sim_df; the records carry no
\* identifier
Fwd_calc_df_diff(sim_df, data_df, ov) ==
    LET idents == Unique([i \in DOMAIN sim_df |-> sim_df[i].ident])
        t_sim == [i \in DOMAIN sim_df |-> sim_df[i].time]
        vals_sim == [i \in DOMAIN sim_df |-> sim_df[i].dep_var]
        ForIdent(ident) ==
            [i \in DOMAIN data_df |->
                [time |-> data_df[i].time,
                 dep_var_diff |->
                     RelDiff(data_df[i].dep_var,
                             np_interp(data_df[i].time, t_sim, vals_sim)),
                 measure |-> ov]]
        Rows[k \in 0..Len(idents)] ==
            IF k = 0 THEN << >> ELSE Rows[k - 1] \o ForIdent(idents[k])
    IN  Rows[Len(idents)]

\* pk_var
OutVar == "C_central"

\* The frames the model draws from.  A simulated curve has increasing times.
DiffIdents == {"s01", "s02"}
SimTimes == {1, 3}
ObsTimes == {0, 2, 3}
DiffValues == {0, 2, 4}

SimCurves ==
    UNION { {c \in [1..n -> [time : SimTimes, dep_var : DiffValues]] :
                \A i \in 1..(n - 1) : c[i].time < c[i + 1].time}
            : n \in 1..MaxSimPoints }

Labelled(curve, ident) ==
    [i \in DOMAIN curve |->
        [ident |-> ident, time |-> curve[i].time, dep_var |-> curve[i].dep_var]]

SimFrames ==
    {Labelled(c, "s01") : c \in SimCurves}
        \union {Labelled(<< [time |-> 1, dep_var |-> 4] >>, "s02") \o Labelled(c, "s01")
                    : c \in SimCurves}
        \union {<< >>}

DataFrames ==
    SeqsUpTo([ident : DiffIdents, time : ObsTimes, dep_var : DiffValues], MaxObs)

NotComputed == [kind |-> "none", rows |-> << >>]

DiffInit ==
    /\ sdf \in SimFrames
    /\ ddf \in DataFrames
    /\ diff_df = NotComputed
    /\ plotted = << >>
    /\ fwd_diff_df = NotComputed

DiffIdle ==
    /\ sdf = << >>
    /\ ddf = << >>
    /\ diff_df = NotComputed
    /\ plotted = << >>
    /\ fwd_diff_df = NotComputed

\* one pass of "for ov in self._outvars" (lines 387-411): diff_df goes to
\* geom_point as it is
PlotPkResiduals ==
    /\ unit = "diff"
    /\ diff_df = NotComputed
    /\ IF ~(sdf = << >> \/ ddf = << >>)
       THEN LET d == _calc_df_diff(sdf, ddf, OutVar)
            IN  /\ diff_df' = [kind |-> "ok", rows |-> d]
                /\ plotted' = d
       ELSE /\ diff_df' = [kind |-> "skipped", rows |-> << >>]
            /\ plotted' = << >>
    /\ UNCHANGED << sdf, ddf, fwd_diff_df >>
    /\ UNCHANGED << unit, idVars, levelVars, rnumVars, parseVars, procVars, confVars,
                 pkVars, simVars, tidyVars, sensVars, setupVars, setptsVars, simInfoVars >>

\* FwdAnalyzer._calc_df_diff on the same pair of tables, guarded as its caller
\* guards it (forward.py line 178)
CallFwdCalcDfDiff ==
    /\ unit = "diff"
    /\ fwd_diff_df = NotComputed
    /\ IF ~(sdf = << >> \/ ddf = << >>)
       THEN fwd_diff_df' = [kind |-> "ok", rows |-> Fwd_calc_df_diff(sdf, ddf, OutVar)]
       ELSE fwd_diff_df' = [kind |-> "skipped", rows |-> << >>]
    /\ UNCHANGED << sdf, ddf, diff_df, plotted >>
    /\ UNCHANGED << unit, idVars, levelVars, rnumVars, parseVars, procVars, confVars,
                 pkVars, simVars, tidyVars, sensVars, setupVars, setptsVars, simInfoVars >>

----------------------------------------------------------------------------
(* Tables and pd.melt *)

\* A table: its column names in order, and its rows as sequences of cells in
\* the order of the columns.
Frame(cols, rows) == [cols |-> cols, rows |-> rows]

ColIndex(frame, c) == CHOOSE j \in DOMAIN frame.cols : frame.cols[j] = c

\* a melt that repeats the first row's cell for every row
melt_firstrow(frame, id_vars, value_vars) ==
    LET R == Len(frame.rows)
        Rec(n) ==
            LET v == value_vars[((n - 1) \div R) + 1]
                r == frame.rows[((n - 1) % R) + 1]
            IN  [ids |-> [k \in DOMAIN id_vars |-> r[ColIndex(frame, id_vars[k])]],
                 variable |-> v,
                 value |-> frame.rows[1][ColIndex(frame, v)]]
    IN  [n \in 1..(Len(value_vars) * R) |-> Rec(n)]

\* pd.melt(frame, id_vars, value_vars): one record per value column and row,
\* the value columns in order and, within each, the rows in order
melt(frame, id_vars, value_vars) ==
    LET R == Len(frame.rows)
        Rec(n) ==
            LET v == value_vars[((n - 1) \div R) + 1]
                r == frame.rows[((n - 1) % R) + 1]
            IN  [ids |-> [k \in DOMAIN id_vars |-> r[ColIndex(frame, id_vars[k])]],
                 variable |-> v,
                 value |-> r[ColIndex(frame, v)]]
    IN  [n \in 1..(Len(value_vars) * R) |-> Rec(n)]

\* value_vars=None: every column that is not an id column
OtherCols(frame, id_vars) == SelectSeq(frame.cols, LAMBDA c : c \notin Range(id_vars))

\* FwdAnalyzer._process_sim, lines 75-79: melt on "Time", then rename it "time"
FwdTidy(sim_df) ==
    LET m == melt(sim_df, << "Time" >>, OtherCols(sim_df, << "Time" >>))
    IN  [n \in DOMAIN m |->
            [time |-> m[n].ids[1], measure |-> m[n].variable, dep_var |-> m[n].value]]

\* the keys of fmap in calc_pk_from_df
PkLabels == << "AUC", "AUC_inf", "MRT", "tmax", "Cmax", "kelim", "t_half" >>

\* fmap[pname](C), lines 171-179
fmap(pname, t, C) ==
    CASE pname = "AUC" -> calc_AUC(t, C, FALSE, DEF_NINTERP)
      [] pname = "AUC_inf" -> calc_AUC(t, C, TRUE, DEF_NINTERP)
      [] pname = "MRT" -> calc_mean_residence_time(t, C, DEF_NINTERP)
      [] pname = "tmax" -> calc_tmax(t, C)
      [] pname = "Cmax" -> calc_cmax(t, C)
      [] pname = "kelim" -> calc_elim_rate_const(t, C, DEF_NINTERP)
      [] pname = "t_half" -> calc_elim_half_life(t, C, DEF_NINTERP)

\* calc_pk_from_df(df, t): one column per entry of fmap, one row per row of df;
\* the columns are filled in order, each row by row, and the first call that
\* raises ends it
calc_pk_from_df(df, t) ==
    With([j \in DOMAIN PkLabels |-> [i \in DOMAIN df |-> fmap(PkLabels[j], t, df[i])]],
         LAMBDA cells :
            LET bad == {x \in (DOMAIN PkLabels) \X (DOMAIN df) :
                            cells[x[1]][x[2]].kind # "ok"}
                first == CHOOSE x \in bad : \A y \in bad :
                             x[1] < y[1] \/ (x[1] = y[1] /\ x[2] <= y[2])
            IN  IF bad # {}
                THEN [kind |-> cells[first[1]][first[2]].kind,
                      frame |-> Frame(<< >>, << >>)]
                ELSE [kind |-> "ok",
                      frame |-> Frame(PkLabels,
                                      [i \in DOMAIN df |->
                                          [j \in DOMAIN PkLabels |-> cells[j][i].val]])])

\* MCAnalyzer._calc_pk_params_tidy, lines 230-241, for the table df_ that
\* _calc_pk_params returned
PkTidy(df_, id_) ==
    LET pk_labels == df_.cols
        with_ident == Frame(Append(df_.cols, "ident"),
                            [i \in DOMAIN df_.rows |-> Append(df_.rows[i], id_)])
        m == melt(with_ident, << "ident" >>, pk_labels)
    IN  [n \in DOMAIN m |->
            [ident |-> m[n].ids[1], param |-> m[n].variable, value |-> m[n].value]]

\* The tables the model draws from.
Measures == {"C_central", "A_gut"}
MeasureLists == {s \in SeqsUpTo(Measures, 2) : s # << >> /\ IsInjective(s)}
CellValues == {0, 1}

FwdFrames ==
    UNION { {[kind |-> "fwd", ident |-> "",
              frame |-> Frame(<< "Time" >> \o ms, rows)] :
                rows \in SeqsUpTo([1..(Len(ms) + 1) -> CellValues], MaxRows)}
            : ms \in MeasureLists }

\* the rows of an ensemble: concentrations at the times 0, 1, 2
PkTspan == << 0, 1, 2 >>
PkRowPool == { << 4, 2, 1 >>, << 1, 2, 2 >>, << 0, 4, 1 >> }

PkFrames ==
    { [kind |-> "pk", ident |-> id,
       frame |-> calc_pk_from_df(ndf_, PkTspan).frame] :
          ndf_ \in SeqsUpTo(PkRowPool, MaxRows) \ {<< >>}, id \in {"s01", "pop"} }

NotMelted == << [none |-> TRUE] >>

TidyInit ==
    /\ wide_df \in FwdFrames \union PkFrames
    /\ tidy_df = NotMelted

TidyIdle ==
    /\ wide_df = [kind |-> "none", ident |-> "", frame |-> Frame(<< >>, << >>)]
    /\ tidy_df = NotMelted

FwdProcessSim ==
    /\ unit = "tidy"
    /\ wide_df.kind = "fwd"
    /\ tidy_df = NotMelted
    /\ tidy_df' = FwdTidy(wide_df.frame)
    /\ UNCHANGED wide_df
    /\ UNCHANGED << unit, idVars, levelVars, rnumVars, parseVars, procVars, confVars,
                 pkVars, diffVars, simVars, sensVars, setupVars, setptsVars, simInfoVars >>

CalcPkParamsTidy ==
    /\ unit = "tidy"
    /\ wide_df.kind = "pk"
    /\ tidy_df = NotMelted
    /\ tidy_df' = PkTidy(wide_df.frame, wide_df.ident)
    /\ UNCHANGED wide_df
    /\ UNCHANGED << unit, idVars, levelVars, rnumVars, parseVars, procVars, confVars,
                 pkVars, diffVars, simVars, sensVars, setupVars, setptsVars, simInfoVars >>

----------------------------------------------------------------------------
(* MCAnalyzer._process_sim: the output files of one analysis *)

\* list(self._id_map.keys()) for a dataset of two subjects
SimIdMapKeys == << "s01", "s02", "pop" >>

\* _extract_id: the identifier the file name carries, or else ids.pop() of a
\* list built afresh from the keys of the map
_extract_id(f) ==
    IF f.name_ident # "none" THEN f.name_ident ELSE SimIdMapKeys[Len(SimIdMapKeys)]

\* quants=(0.025, 0.5, 0.975), in units of 1/QDen
DefaultQuants == << 1, 20, 39 >>

\* sim_times: t_start, t_end
SimTStart == 0
SimTEnd == 2

\* np.linspace(a, b, n); the model's a, b and n keep the steps whole
linspace(a, b, n) ==
    IF n = 1 THEN << a >> ELSE [k \in 1..n |-> a + ((k - 1) * (b - a)) \div (n - 1)]

PkVar == "C_central"

\* The passes of "for ov in outvars" (lines 167-190) over the variables ovs of
\* one file, from the state acc of the locals: the status, the rows of
\* all_sim_df, the rows of pk_params, and the length of sim_df (0: still empty).
\* one pass: the variable ov of the file f
RunOutvar(ov, f, id_, acc) ==
    With(_calc_confint(f.ndf, DefaultQuants), LAMBDA ci :
        With(linspace(SimTStart, SimTEnd, Len(ci.lower.rows[1])), LAMBDA tspan :
            With(IF ov = PkVar THEN calc_pk_from_df(f.ndf, tspan)
                 ELSE [kind |-> "ok", frame |-> Frame(<< >>, << >>)],
                 LAMBDA pk :
                    LET lower == ci.lower.rows[1]
                        dep_var == ci.dep_var.rows[1]
                        upper == ci.upper.rows[1]
                        stats_df == IF ov = PkVar THEN PkTidy(pk.frame, id_) ELSE << >>
                        sim_df == [k \in DOMAIN tspan |->
                                      [time |-> tspan[k], lower |-> lower[k],
                                       dep_var |-> dep_var[k], upper |-> upper[k],
                                       ident |-> id_, measure |-> ov]]
                    IN  IF pk.kind # "ok" THEN [acc EXCEPT !.status = pk.kind]
                        ELSE IF acc.len # 0 /\ acc.len # Len(tspan)
                             THEN [acc EXCEPT !.status = "ValueError"]
                             ELSE [status |-> "running",
                                   rows |-> acc.rows \o sim_df,
                                   pk |-> acc.pk \o stats_df,
                                   len |-> Len(tspan)])))

RunOutvars(ovs, f, id_, acc0) ==
    LET Acc[k \in 0..Len(ovs)] ==
            IF k = 0 THEN acc0
            ELSE With(Acc[k - 1], LAMBDA acc :
                     IF acc.status # "running" THEN acc
                     ELSE RunOutvar(ovs[k], f, id_, acc))
    IN  Acc[Len(ovs)]

\* the orders in which a set can be iterated
Orders(S) == {s \in [1..Cardinality(S) -> S] : IsInjective(s)}

\* The files the model draws from: the identifier in the name (or none), the
\* output variables of the header, and the ensemble of each variable.
NameIdents == {"s01", "s02", "none"}
OutvarSets == {{"C_central"}, {"C_central", "A_gut"}}
Ensembles == { << << 2, 1 >> >>, << << 0, 0 >> >>, << << 4, 2, 1 >> >> }

OutFiles == [name_ident : NameIdents, outvars : OutvarSets, ndf : Ensembles]

SimInit ==
    /\ mc_outfiles \in SeqsUpTo(OutFiles, MaxFiles)
    /\ files_done = 0
    /\ file_ids = << >>
    /\ all_sim_df = << >>
    /\ pk_params = << >>
    /\ sim_df_len = 0
    /\ sim_status = "running"

SimIdle ==
    /\ mc_outfiles = << >>
    /\ files_done = 0
    /\ file_ids = << >>
    /\ all_sim_df = << >>
    /\ pk_params = << >>
    /\ sim_df_len = 0
    /\ sim_status = "idle"

\* one pass of "for mcf in gen_utils.to_list(mc_outfiles)"; an exception ends
\* the function and its locals are lost
ProcessFile ==
    /\ unit = "sim"
    /\ sim_status = "running"
    /\ mc_outfiles # << >>
    /\ LET f == Head(mc_outfiles)
           id_ == _extract_id(f)
       IN  \E ovs \in Orders(f.outvars) :
               LET acc == RunOutvars(ovs, f, id_,
                                     [status |-> "running", rows |-> all_sim_df,
                                      pk |-> pk_params, len |-> sim_df_len])
               IN  /\ sim_status' = acc.status
                   /\ all_sim_df' = IF acc.status = "running" THEN acc.rows ELSE << >>
                   /\ pk_params' = IF acc.status = "running" THEN acc.pk ELSE << >>
                   /\ sim_df_len' = acc.len
    /\ mc_outfiles' = Tail(mc_outfiles)
    /\ files_done' = files_done + 1
    /\ file_ids' = Append(file_ids, [name_ident |-> Head(mc_outfiles).name_ident,
                                      id_ |-> _extract_id(Head(mc_outfiles))])
    /\ UNCHANGED << unit, idVars, levelVars, rnumVars, parseVars, procVars, confVars,
                 pkVars, diffVars, tidyVars, sensVars, setupVars, setptsVars, simInfoVars >>

\* lines 191-194: the table is returned as it was assembled
ReturnSimDf ==
    /\ unit = "sim"
    /\ sim_status = "running"
    /\ mc_outfiles = << >>
    /\ sim_status' = "returned"
    /\ UNCHANGED << mc_outfiles, files_done, file_ids, all_sim_df, pk_params,
                    sim_df_len >>
    /\ UNCHANGED << unit, idVars, levelVars, rnumVars, parseVars, procVars, confVars,
                 pkVars, diffVars, tidyVars, sensVars, setupVars, setptsVars, simInfoVars >>

----------------------------------------------------------------------------
(* SensitivityAnalysis.calc_sensitivity *)

\* itertools.combinations(range(nparam), 2): for each i, the pairs (i, j) with
\* j after i; indices count from 0
PairsFrom(i, nparam) == [m \in 1..(nparam - 1 - i) |-> << i, i + m >>]

RECURSIVE CombinationsUpTo(_, _)
CombinationsUpTo(i, nparam) ==
    IF i < 0 THEN << >>
    ELSE CombinationsUpTo(i - 1, nparam) \o PairsFrom(i, nparam)

_combinations(nparam) == CombinationsUpTo(nparam - 2, nparam)

\* self._analyzer.analyze(self._problem, Y) for the column cname: the indices
\* of SALib are not computed here; every entry carries a value of its own,
\* fixed by the column and its position, so that it can be told from the others
ColNo(cname) == CHOOSE c \in DOMAIN PkLabels : PkLabels[c] = cname

Analyze(cname, nparam, Y) ==
    [S1 |-> [i \in 1..nparam |-> 10000 * Y + 1000 * ColNo(cname) + i - 1],
     ST |-> [i \in 1..nparam |-> 10000 * Y + 2000 * ColNo(cname) + i - 1],
     S2 |-> [p \in (0..(nparam - 1)) \X (0..(nparam - 1)) |->
                10000 * Y + 100 * ColNo(cname) + 10 * p[1] + p[2]]]

\* The argument setpts_outfile: the path that sens_analysis passes, or an
\* object that carries sim_id and sim_specs as SimInfo does.
SetptsArgs == {"path", "siminfo"}

\* the data of the output files a call can name, each by a number
SetptsData == {0, 1}

\* line 104: SetPtsAnalyzer(setpts_outfile, sim_specs) binds setpts_outfile to
\* the parameter SimInfo of MCAnalyzer.__init__, which reads SimInfo.sim_id
SetPtsAnalyzer(arg) == IF arg = "path" THEN "AttributeError" ELSE "ok"

ParamNames == {"Vc", "kel", "ka", "CLH"}
ParamLists == {s \in SeqsUpTo(ParamNames, MaxParams) : s # << >> /\ IsInjective(s)}

\* self._sa_results = {}
NoSaResults == [main |-> << >>, interactions |-> << >>, stored |-> FALSE]

SensInit ==
    /\ setpts_outfile \in SetptsArgs
    /\ setpts_Y \in SetptsData
    /\ sa_results = NoSaResults
    /\ sa_files = NoSaResults
    /\ sa_calls = 1
    /\ mparams \in ParamLists
    /\ pk_cols = << >>
    /\ Si_S2 = << >>
    /\ sa_main = << >>
    /\ sa_interact = << >>
    /\ sens_status = "called"

SensIdle ==
    /\ setpts_outfile = "none"
    /\ setpts_Y = 0
    /\ sa_results = NoSaResults
    /\ sa_files = NoSaResults
    /\ sa_calls = 0
    /\ mparams = << >>
    /\ pk_cols = << >>
    /\ Si_S2 = << >>
    /\ sa_main = << >>
    /\ sa_interact = << >>
    /\ sens_status = "idle"

\* lines 98-109: the analyzer is built and its table of PK parameters taken,
\* without its column "ident"
ReadPkParams ==
    /\ unit = "sens"
    /\ sens_status = "called"
    /\ IF SetPtsAnalyzer(setpts_outfile) = "ok"
       THEN /\ sens_status' = "running"
            /\ pk_cols' = PkLabels
       ELSE /\ sens_status' = SetPtsAnalyzer(setpts_outfile)
            /\ pk_cols' = << >>
    /\ UNCHANGED << setpts_outfile, setpts_Y, mparams, Si_S2, sa_main, sa_interact,
                    sa_results, sa_calls, sa_files >>
    /\ UNCHANGED << unit, idVars, levelVars, rnumVars, parseVars, procVars, confVars,
                 pkVars, diffVars, simVars, tidyVars, setupVars, setptsVars, simInfoVars >>

\* one pass of "for i, cname in enumerate(pk_params)" (lines 111-134);
\* "n1, n2 = list(zip(*names))" unpacks an empty list when there is no pair
AnalyseColumn ==
    /\ unit = "sens"
    /\ sens_status = "running"
    /\ pk_cols # << >>
    /\ LET cname == Head(pk_cols)
           num_mparams == Len(mparams)
           Si == Analyze(cname, num_mparams, setpts_Y)
           interactions == Si.S2
           MainRows(si_) ==
               [i \in 1..num_mparams |->
                   [value |-> Si[si_][i], sens_level |-> si_, pk_param |-> cname,
                    model_param |-> mparams[i]]]
           combs == _combinations(num_mparams)
           names == [m \in DOMAIN combs |->
                        << mparams[combs[m][1] + 1], mparams[combs[m][2] + 1] >>]
           vals == [m \in DOMAIN combs |-> interactions[combs[m]]]
           si_vals == [m \in DOMAIN combs |->
                          [value |-> vals[m], sens_level |-> "S2", pk_param |-> cname,
                           model_param_1 |-> names[m][1],
                           model_param_2 |-> names[m][2]]]
       IN  /\ Si_S2' = interactions
           /\ IF names = << >>
              THEN /\ sens_status' = "ValueError"
                   /\ sa_main' = << >>
                   /\ sa_interact' = << >>
                   /\ pk_cols' = << >>
              ELSE /\ sens_status' = "running"
                   /\ sa_main' = sa_main \o MainRows("S1") \o MainRows("ST")
                   /\ sa_interact' = sa_interact \o si_vals
                   /\ pk_cols' = Tail(pk_cols)
    /\ UNCHANGED << setpts_outfile, setpts_Y, mparams, sa_results, sa_calls, sa_files >>
    /\ UNCHANGED << unit, idVars, levelVars, rnumVars, parseVars, procVars, confVars,
                 pkVars, diffVars, simVars, tidyVars, setupVars, setptsVars, simInfoVars >>

\* lines 135-139: the indices are reset and the tables stored
StoreSaResults ==
    /\ unit = "sens"
    /\ sens_status = "running"
    /\ pk_cols = << >>
    /\ sens_status' = "returned"
    /\ sa_results' = [main |-> sa_main, interactions |-> sa_interact, stored |-> TRUE]
    /\ UNCHANGED << setpts_outfile, setpts_Y, mparams, pk_cols, Si_S2, sa_main,
                    sa_interact, sa_calls, sa_files >>
    /\ UNCHANGED << unit, idVars, levelVars, rnumVars, parseVars, procVars, confVars,
                 pkVars, diffVars, simVars, tidyVars, setupVars, setptsVars, simInfoVars >>

\* write_results (lines 141-146) after a call that returned: the stored tables
\* are read and written to the files of save_dir
WriteResults ==
    /\ unit = "sens"
    /\ sens_status = "returned"
    /\ sa_results.stored
    /\ sa_files' = sa_results
    /\ UNCHANGED << setpts_outfile, setpts_Y, mparams, pk_cols, Si_S2, sa_main,
                    sa_interact, sens_status, sa_results, sa_calls >>
    /\ UNCHANGED << unit, idVars, levelVars, rnumVars, parseVars, procVars, confVars,
                 pkVars, diffVars, simVars, tidyVars, setupVars, setptsVars, simInfoVars >>

\* a further call of calc_sensitivity on the same object (lines 99-110): the
\* locals start afresh, self._sa_results stays as it is until line 138
CallCalcSensitivityAgain ==
    /\ unit = "sens"
    /\ sens_status = "returned"
    /\ sa_calls < MaxCalls
    /\ sa_calls' = sa_calls + 1
    /\ setpts_outfile' \in SetptsArgs
    /\ setpts_Y' \in SetptsData
    /\ pk_cols' = << >>
    /\ Si_S2' = << >>
    /\ sa_main' = << >>
    /\ sa_interact' = << >>
    /\ sens_status' = "called"
    /\ UNCHANGED << mparams, sa_results, sa_files >>
    /\ UNCHANGED << unit, idVars, levelVars, rnumVars, parseVars, procVars, confVars,
                 pkVars, diffVars, simVars, tidyVars, setupVars, setptsVars, simInfoVars >>

----------------------------------------------------------------------------
(* workflows.sens_analysis: SensitivityAnalysis.__init__ and _extract_problem *)

\* consts.SA_LIB_METHODS: method alias -> (sampler, analyzer)
SA_LIB_METHODS ==
    << << "fast", << "fast_sampler", "fast" >> >>,
       << "rdb-fast", << "latin", "rdb_fast" >> >>,
       << "morris", << "morris", "morris" >> >>,
       << "sobol", << "saltelli", "sobol" >> >>,
       << "delta", << "latin", "delta" >> >>,
       << "ff", << "ff", "ff" >> >> >>

\* settings.SA_METHOD
SA_METHOD == "sobol"

\* a lookup that falls back on the default method
LookupMethod_default(method) ==
    IF \E i \in DOMAIN SA_LIB_METHODS : SA_LIB_METHODS[i][1] = method
    THEN [raised |-> "none",
          pair |-> SA_LIB_METHODS[CHOOSE i \in DOMAIN SA_LIB_METHODS :
                                      SA_LIB_METHODS[i][1] = method][2]]
    ELSE [raised |-> "none",
          pair |-> SA_LIB_METHODS[CHOOSE i \in DOMAIN SA_LIB_METHODS :
                                      SA_LIB_METHODS[i][1] = SA_METHOD][2]]

\* line 53: sampler, analyzer = SA_LIB_METHODS[method]
LookupMethod(method) ==
    IF \E i \in DOMAIN SA_LIB_METHODS : SA_LIB_METHODS[i][1] = method
    THEN [raised |-> "none",
          pair |-> SA_LIB_METHODS[CHOOSE i \in DOMAIN SA_LIB_METHODS :
                                      SA_LIB_METHODS[i][1] = method][2]]
    ELSE [raised |-> "KeyError", pair |-> << >>]

\* The text of a line after the marker, by what the interpreter makes of it:
\* a dict display with the keys num_vars, names and bounds ("dict"), another
\* literal ("literal"), an expression that calls a function ("call"), or text
\* that is no expression ("text").
PyExpr(kind, num_vars, names, bounds) ==
    [kind |-> kind, num_vars |-> num_vars, names |-> names, bounds |-> bounds]

NoProblem == PyExpr("none", 0, << >>, << >>)

\* eval("\n".join(plines)), line 78: no line, or more than one complete
\* expression, does not parse; a call is carried out and its value returned
Eval(plines) ==
    IF Len(plines) # 1 \/ plines[1].kind = "text"
    THEN [raised |-> "SyntaxError", executed |-> FALSE, value |-> NoProblem]
    ELSE IF plines[1].kind = "call"
         THEN [raised |-> "none", executed |-> TRUE,
               value |-> PyExpr("literal", 0, << >>, << >>)]
         ELSE [raised |-> "none", executed |-> FALSE, value |-> plines[1]]

\* _extract_problem, lines 71-79: the lines that start with the marker,
\* without it, are joined and evaluated
_extract_problem(sfile) ==
    LET marked == SelectSeq(sfile, LAMBDA l : l.marked)
        plines == [i \in DOMAIN marked |-> marked[i].text]
    IN  Eval(plines)

\* SensitivityAnalysis.__init__, lines 53-64
SensitivityAnalysisInit(method, sfile) ==
    LET m == LookupMethod(method)
        p == _extract_problem(sfile)
    IN  IF m.raised # "none"
        THEN [raised |-> m.raised, executed |-> FALSE, pair |-> << >>,
              problem |-> NoProblem]
        ELSE [raised |-> p.raised, executed |-> p.executed, pair |-> m.pair,
              problem |-> p.value]

\* The inputs the model draws from.
MethodNames == {SA_LIB_METHODS[i][1] : i \in DOMAIN SA_LIB_METHODS} \union {"sobol2"}
SensNames == {"Vc"}
ExprPool ==
    {PyExpr("dict", n, ns, bs) :
        n \in 0..MaxNames,
        ns \in {s \in SeqsUpTo(SensNames, MaxNames) : IsInjective(s)},
        bs \in SeqsUpTo({<< 0, 1 >>}, MaxNames)}
    \union {PyExpr("literal", 0, << >>, << >>), PyExpr("call", 0, << >>, << >>),
            PyExpr("text", 0, << >>, << >>)}
\* a line of the file: the lines without the marker are MCSim input
FileLines ==
    {[marked |-> FALSE, text |-> PyExpr("text", 0, << >>, << >>)]}
        \union {[marked |-> TRUE, text |-> e] : e \in ExprPool}
SetptsFiles == SeqsUpTo(FileLines, MaxLines)

SetupInit ==
    /\ sa_method \in MethodNames
    /\ setpts_file \in SetptsFiles
    /\ wf_pc = "convert"
    /\ sa_pair = << >>
    /\ sa_problem = NoProblem
    /\ ctor_calls = 0
    /\ samples_written = 0
    /\ sims_run = 0
    /\ code_executed = FALSE

SetupIdle ==
    /\ sa_method = "none"
    /\ setpts_file = << >>
    /\ wf_pc = "idle"
    /\ sa_pair = << >>
    /\ sa_problem = NoProblem
    /\ ctor_calls = 0
    /\ samples_written = 0
    /\ sims_run = 0
    /\ code_executed = FALSE

\* workflows.py lines 180-186: the input file is written by _convert_file
ConvertSensFile ==
    /\ unit = "setup"
    /\ wf_pc = "convert"
    /\ wf_pc' = "construct"
    /\ UNCHANGED << sa_method, setpts_file, sa_pair, sa_problem, ctor_calls, samples_written,
                    sims_run, code_executed >>
    /\ UNCHANGED << unit, idVars, levelVars, rnumVars, parseVars, procVars, confVars,
                 pkVars, diffVars, simVars, tidyVars, sensVars, setptsVars, simInfoVars >>

\* workflows.py lines 187-189: an exception leaves sens_analysis
ConstructSensitivityAnalysis ==
    /\ unit = "setup"
    /\ wf_pc = "construct"
    /\ LET r == SensitivityAnalysisInit(sa_method, setpts_file)
       IN  /\ wf_pc' = IF r.raised = "none" THEN "write_samples" ELSE r.raised
           /\ sa_pair' = r.pair
           /\ sa_problem' = r.problem
           /\ code_executed' = r.executed
    /\ ctor_calls' = ctor_calls + 1
    /\ UNCHANGED << sa_method, setpts_file, samples_written, sims_run >>
    /\ UNCHANGED << unit, idVars, levelVars, rnumVars, parseVars, procVars, confVars,
                 pkVars, diffVars, simVars, tidyVars, sensVars, setptsVars, simInfoVars >>

\* the problem has the shape the sampler reads
SamplerAccepts(problem) ==
    /\ problem.kind = "dict"
    /\ problem.num_vars = Len(problem.names)
    /\ Len(problem.bounds) = Len(problem.names)

\* workflows.py line 190, write_samples (sensitivity.py lines 85-89): what the
\* sampler does with a problem of another shape is the library's affair, it
\* may raise or return
WriteSamples ==
    /\ unit = "setup"
    /\ wf_pc = "write_samples"
    /\ \/ /\ wf_pc' = "run_sim"
          /\ samples_written' = samples_written + 1
       \/ /\ ~SamplerAccepts(sa_problem)
          /\ wf_pc' = "SamplerError"
          /\ UNCHANGED samples_written
    /\ UNCHANGED << sa_method, setpts_file, sa_pair, sa_problem, ctor_calls, sims_run,
                    code_executed >>
    /\ UNCHANGED << unit, idVars, levelVars, rnumVars, parseVars, procVars, confVars,
                 pkVars, diffVars, simVars, tidyVars, sensVars, setptsVars, simInfoVars >>

\* the attributes a SimInfo object answers to: the properties of the class
\* (shared.py lines 55-264)
SimInfoAttrs ==
    { "sim_specs", "model_params", "dosing", "pkdata", "sim_params", "sim_type",
      "sim_geninfo", "sim_id", "meta_info", "output_plots", "output_tables",
      "sim_files", "model_exe_info", "num_samples", "model_label", "sim_dirs",
      "iter_freq", "storage_path", "host", "sock", "conn", "msg_dest", "model",
      "db_info" }

\* workflows._run_sim, lines 62-74: the arguments of run_full_process are
\* evaluated first, among them SimInfo.gen_info["model_label"]
_run_sim ==
    IF "gen_info" \in SimInfoAttrs THEN "done" ELSE "AttributeError"

\* workflows.py line 191
RunSensSim ==
    /\ unit = "setup"
    /\ wf_pc = "run_sim"
    /\ wf_pc' = IF _run_sim = "done" THEN "analyze" ELSE _run_sim
    /\ sims_run' = sims_run + 1
    /\ UNCHANGED << sa_method, setpts_file, sa_pair, sa_problem, ctor_calls, samples_written,
                    code_executed >>
    /\ UNCHANGED << unit, idVars, levelVars, rnumVars, parseVars, procVars, confVars,
                 pkVars, diffVars, simVars, tidyVars, sensVars, setptsVars, simInfoVars >>

----------------------------------------------------------------------------
(* workflows.setpts_analysis and convert.MCSimFileWriter: the files of a run *)

MaxPosteriors == 3

\* SIM_FILE_SUFFIXES["input_file"], SIM_FILE_SUFFIXES["output_file"]
INPUT_SUF == "in"
OUTPUT_SUF == "out"

\* sim_dirs["sim_infile_dir"], sim_dirs["sim_outfile_dir"]
SimInfileDir == "infiles"
SimOutfileDir == "outfiles"

\* gen_utils.get_run_id: "_, run_id = fname.stem.split('_')"
get_run_id(stem) ==
    IF Len(stem) = 2 THEN [kind |-> "ok", val |-> stem[2]]
    ELSE [kind |-> "ValueError", val |-> ""]

\* MCSimFileWriter._create_filespaces: a path is its directory, the pieces of
\* its file name and its suffix
_create_filespaces(sim_id, sim_infile_dir, sim_outfile_dir, run_id) ==
    LET name == IF run_id # "" THEN << sim_id, "_", run_id >> ELSE << sim_id >>
    IN  << [dir |-> sim_infile_dir, name |-> name, suf |-> INPUT_SUF],
           [dir |-> sim_outfile_dir, name |-> name, suf |-> OUTPUT_SUF] >>

\* MCSimFileWriter.__init__: the files of the writer; lines 43-45 hand
\* run_id="" to _create_filespaces, whatever run_id the writer was given
MCSimFileWriterInit(sim_id, sim_infile_dir, sim_outfile_dir, run_id) ==
    _create_filespaces(sim_id, sim_infile_dir, sim_outfile_dir, "")

\* open(self.sim_infile, "w"): the file at path now holds what was rendered for
\* posterior k
WriteFile(disk, path, k) ==
    SelectSeq(disk, LAMBDA f : f.path # path) \o << [path |-> path, posterior |-> k] >>

\* The posterior files the model draws from: save_posteriors names them
\* {basename}_{name}.txt; a stem without "_" is a file of another origin.
StemPool ==
    { << "posterior", "s01" >>, << "posterior", "s02" >>, << "posterior", "pop" >>,
      << "notes" >> }

SetptsInit ==
    /\ geninfo_sim_id \in {"sim1", "sim2"}
    /\ sp_files \in {s \in SeqsUpTo(StemPool, MaxPosteriors) : IsInjective(s)}
    /\ sp_next = 1
    /\ sim_infiles = << >>
    /\ sim_outfiles = << >>
    /\ infile_disk = << >>
    /\ overwritten = FALSE
    /\ setpts_outfiles = << >>
    /\ sp_pc = "loop"

SetptsIdle ==
    /\ geninfo_sim_id = ""
    /\ sp_files = << >>
    /\ sp_next = 1
    /\ sim_infiles = << >>
    /\ sim_outfiles = << >>
    /\ infile_disk = << >>
    /\ overwritten = FALSE
    /\ setpts_outfiles = << >>
    /\ sp_pc = "idle"

\* lines 157-160: get_run_id, _convert_file (to_mcsim_input: the writer and
\* its write()), and the two appends
ConvertPosterior ==
    /\ unit = "setpts"
    /\ sp_pc = "loop"
    /\ sp_next <= Len(sp_files)
    /\ LET run_id == get_run_id(sp_files[sp_next])
           files == MCSimFileWriterInit(geninfo_sim_id, SimInfileDir, SimOutfileDir,
                                        run_id.val)
       IN  IF run_id.kind # "ok"
           THEN /\ sp_pc' = run_id.kind
                /\ UNCHANGED << sim_infiles, sim_outfiles, infile_disk, overwritten >>
           ELSE /\ sp_pc' = "run_sim"
                /\ infile_disk' = WriteFile(infile_disk, files[1], sp_next)
                /\ overwritten' =
                       (overwritten
                            \/ \E i \in DOMAIN infile_disk : infile_disk[i].path = files[1])
                /\ sim_infiles' = Append(sim_infiles, files[1])
                /\ sim_outfiles' = Append(sim_outfiles, files[2])
    /\ UNCHANGED << geninfo_sim_id, sp_files, sp_next, setpts_outfiles >>
    /\ UNCHANGED << unit, idVars, levelVars, rnumVars, parseVars, procVars, confVars,
                 pkVars, diffVars, simVars, tidyVars, sensVars, setupVars, simInfoVars >>

\* line 162: _run_sim(sim_infile, sim_outfile), then the next pass
RunSetptsSim ==
    /\ unit = "setpts"
    /\ sp_pc = "run_sim"
    /\ sp_pc' = IF _run_sim = "done" THEN "loop" ELSE _run_sim
    /\ sp_next' = IF _run_sim = "done" THEN sp_next + 1 ELSE sp_next
    /\ UNCHANGED << geninfo_sim_id, sp_files, sim_infiles, sim_outfiles, infile_disk,
                    overwritten, setpts_outfiles >>
    /\ UNCHANGED << unit, idVars, levelVars, rnumVars, parseVars, procVars, confVars,
                 pkVars, diffVars, simVars, tidyVars, sensVars, setupVars, simInfoVars >>

\* lines 164-171: the loop is over, the output files go to setpoints.analyze
AnalyzeSetpts ==
    /\ unit = "setpts"
    /\ sp_pc = "loop"
    /\ sp_next > Len(sp_files)
    /\ setpts_outfiles' = sim_outfiles
    /\ sp_pc' = "analyze"
    /\ UNCHANGED << geninfo_sim_id, sp_files, sp_next, sim_infiles, sim_outfiles,
                    infile_disk, overwritten >>
    /\ UNCHANGED << unit, idVars, levelVars, rnumVars, parseVars, procVars, confVars,
                 pkVars, diffVars, simVars, tidyVars, sensVars, setupVars, simInfoVars >>

----------------------------------------------------------------------------
(* utils.shared.SimInfo: one state for all instances *)

MaxInstances == 2

\* an attribute that was never assigned, a dict entry that does not exist
Unset == "unset"
Absent == "absent"
PyNone == "None"

SimInfoValues == {"a", "b"}

\* the keys of _sim_dirs the model follows: one that __init__ creates, one that
\* simdirs.create_local_dirs adds; and one key of the plots and of the tables
DirKeys == {"local_work_dir", "sim_infile_dir"}
InitDirKeys == {"local_work_dir"}
PlotKeys == {"mc_pk"}
TableKeys == {"pk_params"}

\* SimInfo.__init__, lines 29-49, on the shared dict d: the attributes it
\* assigns are assigned anew, the others stay
SimInfoInitEffect(d) ==
    [d EXCEPT !._sim_specs = [sim_geninfo |-> PyNone, sim_params |-> PyNone,
                              pkdata |-> PyNone],
              !._sim_dirs = [k \in DirKeys |-> IF k \in InitDirKeys THEN PyNone ELSE Absent],
              !._output_plots = [k \in PlotKeys |-> Absent],
              !._output_tables = [k \in TableKeys |-> Absent]]

\* the dict before any __init__ has run: no attribute at all
EmptySharedState ==
    [_sim_specs |-> Unset, _sim_dirs |-> Unset, _output_plots |-> Unset,
     _output_tables |-> Unset, _sim_params |-> Unset, _pkdata |-> Unset,
     _sim_geninfo |-> Unset]

\* self.__dict__ = self._shared_state: the dict of instance inst
DictOf(inst) == shared_state

NothingStored ==
    [sim_params |-> Unset, pkdata |-> Unset, sim_geninfo |-> Unset,
     sim_dirs |-> [k \in DirKeys |-> Unset],
     output_plots |-> [k \in PlotKeys |-> Unset],
     output_tables |-> [k \in TableKeys |-> Unset]]

\* after the first SimInfo()
SimInfoInit ==
    /\ shared_state = SimInfoInitEffect(EmptySharedState)
    /\ n_instances = 1
    /\ stored = NothingStored

SimInfoIdle ==
    /\ shared_state = EmptySharedState
    /\ n_instances = 0
    /\ stored = NothingStored

\* a further SimInfo(), as each importing module makes one
ConstructSimInfo ==
    /\ unit = "siminfo"
    /\ n_instances < MaxInstances
    /\ n_instances' = n_instances + 1
    /\ shared_state' = SimInfoInitEffect(shared_state)
    /\ UNCHANGED stored
    /\ UNCHANGED << unit, idVars, levelVars, rnumVars, parseVars, procVars, confVars,
                 pkVars, diffVars, simVars, tidyVars, sensVars, setupVars, setptsVars >>

\* the setters of lines 81-93 and 114-117: the entry of _sim_specs and the
\* attribute of its own
SetSpecAttr ==
    /\ unit = "siminfo"
    /\ \E inst \in 1..n_instances, v \in SimInfoValues :
           \/ /\ shared_state' = [DictOf(inst) EXCEPT !._sim_specs.sim_params = v,
                                                       !._sim_params = v]
              /\ stored' = [stored EXCEPT !.sim_params = v]
           \/ /\ shared_state' = [DictOf(inst) EXCEPT !._sim_specs.pkdata = v,
                                                       !._pkdata = v]
              /\ stored' = [stored EXCEPT !.pkdata = v]
           \/ /\ shared_state' = [DictOf(inst) EXCEPT !._sim_specs.sim_geninfo = v,
                                                       !._sim_geninfo = v]
              /\ stored' = [stored EXCEPT !.sim_geninfo = v]
    /\ UNCHANGED n_instances
    /\ UNCHANGED << unit, idVars, levelVars, rnumVars, parseVars, procVars, confVars,
                 pkVars, diffVars, simVars, tidyVars, sensVars, setupVars, setptsVars >>

\* SimInfo.sim_dirs[key] = val (simdirs.py lines 82-91), through the getter of
\* lines 185-187
SetSimDir ==
    /\ unit = "siminfo"
    /\ \E inst \in 1..n_instances, k \in DirKeys, v \in SimInfoValues :
           /\ shared_state' = [DictOf(inst) EXCEPT !._sim_dirs[k] = v]
           /\ stored' = [stored EXCEPT !.sim_dirs[k] = v]
    /\ UNCHANGED n_instances
    /\ UNCHANGED << unit, idVars, levelVars, rnumVars, parseVars, procVars, confVars,
                 pkVars, diffVars, simVars, tidyVars, sensVars, setupVars, setptsVars >>

\* the setters of lines 136-146: self._output_plots.update(val),
\* self._output_tables.update(val), val a dict of one entry
UpdateOutputs ==
    /\ unit = "siminfo"
    /\ \E inst \in 1..n_instances, v \in SimInfoValues :
           \/ \E k \in PlotKeys :
                  /\ shared_state' = [DictOf(inst) EXCEPT !._output_plots[k] = v]
                  /\ stored' = [stored EXCEPT !.output_plots[k] = v]
           \/ \E k \in TableKeys :
                  /\ shared_state' = [DictOf(inst) EXCEPT !._output_tables[k] = v]
                  /\ stored' = [stored EXCEPT !.output_tables[k] = v]
    /\ UNCHANGED n_instances
    /\ UNCHANGED << unit, idVars, levelVars, rnumVars, parseVars, procVars, confVars,
                 pkVars, diffVars, simVars, tidyVars, sensVars, setupVars, setptsVars >>

----------------------------------------------------------------------------
(* Specifications: one per component, the other components at rest *)

InitId ==
    /\ unit = "id"
    /\ IdInit /\ LevelIdle /\ RnumIdle /\ ParseIdle /\ ProcIdle /\ ConfIdle
    /\ PkIdle /\ DiffIdle /\ SimIdle /\ TidyIdle /\ SensIdle /\ SetupIdle /\ SetptsIdle /\ SimInfoIdle
NextId ==
    Construct \/ CallSimRnumToDataId \/ CallDataIdToSimRnum \/ CallExtractId
    \/ CallProcessData
SpecId == InitId /\ [][NextId]_vars

InitLevel ==
    /\ unit = "level"
    /\ IdIdle /\ LevelInit /\ RnumIdle /\ ParseIdle /\ ProcIdle /\ ConfIdle
    /\ PkIdle /\ DiffIdle /\ SimIdle /\ TidyIdle /\ SensIdle /\ SetupIdle /\ SetptsIdle /\ SimInfoIdle
NextLevel == CallUpdateId
SpecLevel == InitLevel /\ [][NextLevel]_vars

InitRnum ==
    /\ unit = "rnum"
    /\ IdIdle /\ LevelIdle /\ RnumInit /\ ParseIdle /\ ProcIdle /\ ConfIdle
    /\ PkIdle /\ DiffIdle /\ SimIdle /\ TidyIdle /\ SensIdle /\ SetupIdle /\ SetptsIdle /\ SimInfoIdle
NextRnum == AssignSimRnums
SpecRnum == InitRnum /\ [][NextRnum]_vars

InitParse ==
    /\ unit = "parse"
    /\ IdIdle /\ LevelIdle /\ RnumIdle /\ ParseInit /\ ProcIdle /\ ConfIdle
    /\ PkIdle /\ DiffIdle /\ SimIdle /\ TidyIdle /\ SensIdle /\ SetupIdle /\ SetptsIdle /\ SimInfoIdle
NextParse == CallExtract
SpecParse == InitParse /\ [][NextParse]_vars

InitProc ==
    /\ unit = "proc"
    /\ IdIdle /\ LevelIdle /\ RnumIdle /\ ParseIdle /\ ProcInit /\ ConfIdle
    /\ PkIdle /\ DiffIdle /\ SimIdle /\ TidyIdle /\ SensIdle /\ SetupIdle /\ SetptsIdle /\ SimInfoIdle
NextProc == ProcessColumn
SpecProc == InitProc /\ [][NextProc]_vars

InitConf ==
    /\ unit = "conf"
    /\ IdIdle /\ LevelIdle /\ RnumIdle /\ ParseIdle /\ ProcIdle /\ ConfInit
    /\ PkIdle /\ DiffIdle /\ SimIdle /\ TidyIdle /\ SensIdle /\ SetupIdle /\ SetptsIdle /\ SimInfoIdle
NextConf == CallCalcConfint
SpecConf == InitConf /\ [][NextConf]_vars

InitPk ==
    /\ unit = "pk"
    /\ IdIdle /\ LevelIdle /\ RnumIdle /\ ParseIdle /\ ProcIdle /\ ConfIdle
    /\ PkInit /\ DiffIdle /\ SimIdle /\ TidyIdle /\ SensIdle /\ SetupIdle /\ SetptsIdle /\ SimInfoIdle
NextPk ==
    \/ CallCalcAUC
    \/ CallCalcElimRateConst
    \/ CallCalcTmax
    \/ CallCalcCmax
    \/ CallCalcAllPk
SpecPk == InitPk /\ [][NextPk]_vars

InitDiff ==
    /\ unit = "diff"
    /\ IdIdle /\ LevelIdle /\ RnumIdle /\ ParseIdle /\ ProcIdle /\ ConfIdle
    /\ PkIdle /\ DiffInit /\ SimIdle /\ TidyIdle /\ SensIdle /\ SetupIdle /\ SetptsIdle /\ SimInfoIdle
NextDiff == PlotPkResiduals \/ CallFwdCalcDfDiff
SpecDiff == InitDiff /\ [][NextDiff]_vars

InitSim ==
    /\ unit = "sim"
    /\ IdIdle /\ LevelIdle /\ RnumIdle /\ ParseIdle /\ ProcIdle /\ ConfIdle
    /\ PkIdle /\ DiffIdle /\ SimInit /\ TidyIdle /\ SensIdle /\ SetupIdle /\ SetptsIdle /\ SimInfoIdle
NextSim == ProcessFile \/ ReturnSimDf
SpecSim == InitSim /\ [][NextSim]_vars

InitTidy ==
    /\ unit = "tidy"
    /\ IdIdle /\ LevelIdle /\ RnumIdle /\ ParseIdle /\ ProcIdle /\ ConfIdle
    /\ PkIdle /\ DiffIdle /\ SimIdle /\ TidyInit /\ SensIdle /\ SetupIdle /\ SetptsIdle /\ SimInfoIdle
NextTidy == FwdProcessSim \/ CalcPkParamsTidy
SpecTidy == InitTidy /\ [][NextTidy]_vars

InitSens ==
    /\ unit = "sens"
    /\ IdIdle /\ LevelIdle /\ RnumIdle /\ ParseIdle /\ ProcIdle /\ ConfIdle
    /\ PkIdle /\ DiffIdle /\ SimIdle /\ TidyIdle /\ SensInit /\ SetupIdle /\ SetptsIdle /\ SimInfoIdle
NextSens ==
    ReadPkParams \/ AnalyseColumn \/ StoreSaResults \/ WriteResults
        \/ CallCalcSensitivityAgain
SpecSens == InitSens /\ [][NextSens]_vars

InitSetup ==
    /\ unit = "setup"
    /\ IdIdle /\ LevelIdle /\ RnumIdle /\ ParseIdle /\ ProcIdle /\ ConfIdle
    /\ PkIdle /\ DiffIdle /\ SimIdle /\ TidyIdle /\ SensIdle /\ SetupInit /\ SetptsIdle /\ SimInfoIdle
NextSetup == ConvertSensFile \/ ConstructSensitivityAnalysis \/ WriteSamples \/ RunSensSim
SpecSetup == InitSetup /\ [][NextSetup]_vars

InitSetpts ==
    /\ unit = "setpts"
    /\ IdIdle /\ LevelIdle /\ RnumIdle /\ ParseIdle /\ ProcIdle /\ ConfIdle
    /\ PkIdle /\ DiffIdle /\ SimIdle /\ TidyIdle /\ SensIdle /\ SetupIdle /\ SetptsInit /\ SimInfoIdle
NextSetpts == ConvertPosterior \/ RunSetptsSim \/ AnalyzeSetpts
SpecSetpts == InitSetpts /\ [][NextSetpts]_vars

InitSimInfo ==
    /\ unit = "siminfo"
    /\ IdIdle /\ LevelIdle /\ RnumIdle /\ ParseIdle /\ ProcIdle /\ ConfIdle
    /\ PkIdle /\ DiffIdle /\ SimIdle /\ TidyIdle /\ SensIdle /\ SetupIdle /\ SetptsIdle /\ SimInfoInit
NextSimInfo == ConstructSimInfo \/ SetSpecAttr \/ SetSimDir \/ UpdateOutputs
SpecSimInfo == InitSimInfo /\ [][NextSimInfo]_vars

\* The whole program: any one component at work.
Init ==
    \/ InitId \/ InitLevel \/ InitRnum \/ InitParse \/ InitProc \/ InitConf
    \/ InitPk \/ InitDiff \/ InitSim \/ InitTidy \/ InitSens \/ InitSetup \/ InitSetpts \/ InitSimInfo

Next ==
    \/ Construct
    \/ CallSimRnumToDataId
    \/ CallDataIdToSimRnum
    \/ CallExtractId
    \/ CallProcessData
    \/ CallUpdateId
    \/ AssignSimRnums
    \/ CallExtract
    \/ ProcessColumn
    \/ CallCalcConfint
    \/ CallCalcAUC
    \/ CallCalcElimRateConst
    \/ CallCalcTmax
    \/ CallCalcCmax
    \/ CallCalcAllPk
    \/ PlotPkResiduals
    \/ CallFwdCalcDfDiff
    \/ ProcessFile
    \/ ReturnSimDf
    \/ FwdProcessSim
    \/ CalcPkParamsTidy
    \/ ReadPkParams
    \/ AnalyseColumn
    \/ StoreSaResults
    \/ WriteResults
    \/ CallCalcSensitivityAgain
    \/ ConvertSensFile
    \/ ConstructSensitivityAnalysis
    \/ WriteSamples
    \/ RunSensSim
    \/ ConvertPosterior
    \/ RunSetptsSim
    \/ AnalyzeSetpts
    \/ ConstructSimInfo
    \/ SetSpecAttr
    \/ SetSimDir
    \/ UpdateOutputs

Spec == Init /\ [][Next]_vars

----------------------------------------------------------------------------
(* Claims *)

RunId(i) == << "s", "0", DigitChar(i) >>

\* the ids of S that sort before d
Before(S, d) == {x \in S : StrLess(x, d)}

(* C1: for N distinct dataset subject ids (1 <= N <= 9) in any order,       *)
(* _create_id_mapping gives the map whose keys are "s01".."s0N" and "pop",   *)
(* where "s0i" maps to the i-th smallest id in lexicographic order and       *)
(* "pop" to "pop"; the map depends on the set of ids alone.                  *)
C1_IdMapSortedOrder ==
    (constructed /\ Len(pkdata_ids) \in 1..9) =>
        LET S == Range(pkdata_ids)
            N == Cardinality(S)
        IN  /\ DictKeys(id_map) = {RunId(i) : i \in 1..N} \union {POPULATION_KEYWORD}
            /\ Len(id_map) = N + 1
            /\ \A i \in 1..N :
                   LET v == DictGet(id_map, RunId(i))
                   IN  /\ v.kind = "ok"
                       /\ v.val \in S
                       /\ Cardinality(Before(S, v.val)) = i - 1
            /\ DictGet(id_map, POPULATION_KEYWORD) =
                   [kind |-> "ok", val |-> POPULATION_KEYWORD]

\* three ids handed over in descending order, and mapped
C1_Witness ==
    /\ constructed
    /\ Len(pkdata_ids) = 3
    /\ StrLess(pkdata_ids[3], pkdata_ids[2])
    /\ StrLess(pkdata_ids[2], pkdata_ids[1])
    /\ DictGet(id_map, RunId(1)) = [kind |-> "ok", val |-> pkdata_ids[3]]

(* C2: the identifier map is a bijection: converting a dataset subject id    *)
(* to its run number and back gives the id, and converting any run           *)
(* identifier of the map to its data id and back gives the run identifier.   *)
C2_RoundTrips ==
    constructed =>
        /\ \A d \in Range(pkdata_ids) :
               LET r == data_id_to_sim_rnum(d)
               IN  /\ r.kind = "ok"
                   /\ sim_rnum_to_data_id(r.val) = [kind |-> "ok", val |-> d]
        /\ \A r \in DictKeys(id_map) :
               LET d == sim_rnum_to_data_id(r)
               IN  /\ d.kind = "ok"
                   /\ data_id_to_sim_rnum(d.val) = [kind |-> "ok", val |-> r]

(* C3, as stated: a lookup with a run number that is not in the map, or a    *)
(* subject id that is not in the dataset, ends in a key-not-found error in   *)
(* every configuration, with or without pk data.                             *)
C3_UnknownAlwaysFails ==
    /\ (lookup.op = "sim_rnum_to_data_id" /\ lookup.arg \notin DictKeys(id_map))
           => lookup.out.kind = "KeyError"
    /\ (lookup.op = "data_id_to_sim_rnum" /\ lookup.arg \notin Range(pkdata_ids))
           => lookup.out.kind = "KeyError"

(* C3, amended: when the dataset holds pk data, a run number that is not in  *)
(* the map and a data id that is neither a subject id of the dataset nor     *)
(* "pop" end in a key-not-found error; when the dataset holds no pk data,    *)
(* either lookup returns its argument unchanged.                             *)
C3_UnknownFailsWithPkdata ==
    /\ (PkdataTruthy /\ lookup.op = "sim_rnum_to_data_id"
            /\ lookup.arg \notin DictKeys(id_map))
           => lookup.out.kind = "KeyError"
    /\ (PkdataTruthy /\ lookup.op = "data_id_to_sim_rnum"
            /\ lookup.arg \notin (Range(pkdata_ids) \union {POPULATION_KEYWORD}))
           => lookup.out.kind = "KeyError"
    /\ (~PkdataTruthy /\ lookup.op # "none")
           => lookup.out = [kind |-> "ok", val |-> lookup.arg]

\* an unknown run number looked up in a dataset that holds pk data
C3_Witness ==
    /\ PkdataTruthy
    /\ lookup.op = "sim_rnum_to_data_id"
    /\ lookup.arg \notin DictKeys(id_map)
    /\ lookup.out.kind = "KeyError"

\* the part of the level between its first dot and its next dot (or its end)
SecondComponent(h) ==
    LET i == CHOOSE k \in DOMAIN h : h[k] = "." /\ \A j \in 1..(k - 1) : h[j] # "."
        ends == {k \in (i + 1)..Len(h) : h[k] = "."} \union {Len(h) + 1}
        j == CHOOSE k \in ends : \A m \in ends : k <= m
    IN  SubSeq(h, i + 1, j - 1)

LeftPad2(c) ==
    IF Len(c) = 0 THEN << "0", "0" >>
    ELSE IF Len(c) = 1 THEN << "0", c[1] >> ELSE c

(* C4: update_id gives "pop" for a level without a dot, and otherwise "s"    *)
(* followed by the second dot-separated component of the level left-padded  *)
(* with zeros to width 2.                                                    *)
C4_LeftPadded ==
    id_out # None =>
        id_out = IF \A k \in DOMAIN hvar : hvar[k] # "." THEN << "p", "o", "p" >>
                 ELSE << "s" >> \o LeftPad2(SecondComponent(hvar))

\* "1.12" gives "s12"
C4_Witness ==
    /\ hvar = << "1", ".", "1", "2" >>
    /\ id_out = << "s", "1", "2" >>

(* C5: for every population size, also above 99, the run identifiers of the  *)
(* subject indices 1..N are pairwise distinct and sort lexicographically in  *)
(* the numeric order of the indices.                                         *)
C5_RunIdsKeepOrder ==
    sim_rnum # << >> =>
        \A i, j \in 1..npop :
            i < j => (sim_rnum[i] # sim_rnum[j] /\ StrLess(sim_rnum[i], sim_rnum[j]))

\* Whether col reads <name>_<tl>.<K> with a name of word characters and a digit
\* string K, and then its name and its K.
FirstIndex(col, ch) ==
    CHOOSE k \in DOMAIN col : col[k] = ch /\ \A j \in 1..(k - 1) : col[j] # ch

HasGridForm(col, tl) ==
    /\ Cardinality({k \in DOMAIN col : col[k] = "."}) = 1
    /\ LET dot == FirstIndex(col, ".")
       IN  /\ dot < Len(col)
           /\ \A k \in (dot + 1)..Len(col) : col[k] \in Digits
           /\ dot - Len(tl) - 2 >= 1
           /\ SubSeq(col, dot - Len(tl), dot - 1) = tl
           /\ col[dot - Len(tl) - 1] = "_"
           /\ \A k \in 1..(dot - Len(tl) - 2) : col[k] \in WordChars

GridFormName(col, tl) == SubSeq(col, 1, FirstIndex(col, ".") - Len(tl) - 2)
GridFormSubIndex(col) == SubSeq(col, FirstIndex(col, ".") + 1, Len(col))

(* C6: grid convention: for a name of word characters, a toplevel T and a    *)
(* digit string K, the column "<name>_T.K" parsed as "mc" with toplevel T    *)
(* gives exactly (name, "T.K"), the whole name and the whole K.              *)
C6_GridExtractsNameAndLevel ==
    LET tl == IntToStr(parse_out.toplevel)
    IN  (parse_out.sim_type = "mc" /\ parse_out.out # NotCalled
             /\ HasGridForm(parse_out.col, tl)) =>
            parse_out.out =
                [kind |-> "ok",
                 name |-> GridFormName(parse_out.col, tl),
                 level |-> tl \o << "." >> \o GridFormSubIndex(parse_out.col)]

\* "C_central_1.12" with toplevel 1 gives ("C_central", "1.12")
C6_Witness ==
    /\ parse_out.sim_type = "mc"
    /\ parse_out.toplevel = 1
    /\ parse_out.col =
           << "C", "_", "c", "e", "n", "t", "r", "a", "l", "_", "1", ".", "1", "2" >>
    /\ parse_out.out.name = << "C", "_", "c", "e", "n", "t", "r", "a", "l" >>
    /\ parse_out.out.level = << "1", ".", "1", "2" >>

\* an integer, or integer.integer
IntOrDotted(L) ==
    /\ Len(L) >= 1
    /\ \A k \in DOMAIN L : L[k] \in Digits \union {"."}
    /\ Cardinality({k \in DOMAIN L : L[k] = "."}) <= 1
    /\ L[1] # "."
    /\ L[Len(L)] # "."

\* Whether col reads <name>(<LEVEL>) with a name of word characters, and then
\* its name and its LEVEL (any text).
HasChainForm(col) ==
    /\ Len(col) >= 3
    /\ col[Len(col)] = ")"
    /\ \E k \in DOMAIN col : col[k] = "("
    /\ FirstIndex(col, "(") >= 2
    /\ \A k \in 1..(FirstIndex(col, "(") - 1) : col[k] \in WordChars

ChainFormName(col) == SubSeq(col, 1, FirstIndex(col, "(") - 1)
ChainFormLevel(col) == SubSeq(col, FirstIndex(col, "(") + 1, Len(col) - 1)

(* C7: chain convention: for a name of word characters, the column           *)
(* "<name>(LEVEL)" parsed as "mcmc" gives exactly (name, LEVEL) when LEVEL   *)
(* is an integer or integer.integer; a LEVEL of another shape is never the   *)
(* level returned (nothing at all is returned when it holds no parenthesis), *)
(* and every level returned has one of the two shapes.                       *)
C7_ChainExtractsNameAndLevel ==
    (parse_out.sim_type = "mcmc" /\ parse_out.out # NotCalled) =>
        /\ HasChainForm(parse_out.col) =>
               LET n == ChainFormName(parse_out.col)
                   L == ChainFormLevel(parse_out.col)
               IN  /\ IntOrDotted(L) =>
                          parse_out.out = [kind |-> "ok", name |-> n, level |-> L]
                   /\ ~IntOrDotted(L) => parse_out.out.level # L
                   /\ (~IntOrDotted(L) /\ \A k \in DOMAIN L : L[k] \notin {"(", ")"})
                          => parse_out.out = NoMatch
        /\ parse_out.out.level # None => IntOrDotted(parse_out.out.level)

\* "C(1.1)" gives ("C", "1.1")
C7_Witness ==
    /\ parse_out.sim_type = "mcmc"
    /\ parse_out.col = << "C", "(", "1", ".", "1", ")" >>
    /\ parse_out.out = [kind |-> "ok", name |-> << "C" >>, level |-> << "1", ".", "1" >>]

\* Whether some part of the column reads <word characters>_<tl>.<digits>, and
\* the names such a part can start with.
GridParts(col, tl) ==
    { w \in {SubSeq(col, a, b) : a, b \in DOMAIN col} :
        \E n \in 1..Len(w) :
            /\ \A k \in 1..n : w[k] \in WordChars
            /\ Len(w) >= n + Len(tl) + 3
            /\ w[n + 1] = "_"
            /\ SubSeq(w, n + 2, n + 1 + Len(tl)) = tl
            /\ w[n + 2 + Len(tl)] = "."
            /\ \A k \in (n + 3 + Len(tl))..Len(w) : w[k] \in Digits }

InGridGrammar(col) == GridParts(col, IntToStr(ProcToplevel)) # {}

\* the name a column of the grid grammar stands for: what precedes the last
\* "_1." of its first run of word characters and dots
GridName(col) ==
    LET tl == IntToStr(ProcToplevel)
        cuts == {k \in DOMAIN col :
                    /\ col[k] = "_"
                    /\ k + Len(tl) + 1 <= Len(col)
                    /\ SubSeq(col, k + 1, k + Len(tl)) = tl
                    /\ col[k + Len(tl) + 1] = "."}
        k == CHOOSE x \in cuts : \A y \in cuts : x <= y
        starts == {a \in 1..(k - 1) : \A m \in a..(k - 1) : col[m] \in WordChars}
        a == CHOOSE x \in starts : \A y \in starts : x <= y
    IN  SubSeq(col, a, k - 1)

(* C8: a column that does not match the grid grammar makes                   *)
(* extract_name_and_level return (None, None) without an error, and adds     *)
(* nothing to the set of output variables: the set holds exactly the names   *)
(* of the visited columns that do match.                                     *)
C8_NonMatchingExcluded ==
    /\ (cols_done # << >> /\ ~InGridGrammar(cols_done[Len(cols_done)]))
           => col_out = [kind |-> "ok", name |-> None, level |-> None]
    /\ outvars = {GridName(c) : c \in {x \in Range(cols_done) : InGridGrammar(x)}}

\* "Time" and a concentration column were visited: only the latter counts
C8_Witness ==
    /\ Len(cols_done) = 2
    /\ cols_done[1] = << "C", "_", "1", ".", "1" >>
    /\ cols_done[2] = TimeCol
    /\ col_out = NoMatch
    /\ outvars = {<< "C" >>}

(* C9: with a naming grammar other than "mc" and "mcmc",                     *)
(* extract_name_and_level ends in an error for every column name; it         *)
(* returns neither (None, None) nor a (name, level) pair.                    *)
C9_UnsupportedGrammarFails ==
    (parse_out.out # NotCalled /\ parse_out.sim_type \notin {"mc", "mcmc"}) =>
        parse_out.out.kind = "KeyError"

\* a column that the grid grammar would match, parsed under "fwd"
C9_Witness ==
    /\ parse_out.sim_type = "fwd"
    /\ parse_out.col = << "C", "_", "1", ".", "1" >>
    /\ parse_out.out.kind = "KeyError"

AllRowsEqual(df) == \A i \in DOMAIN df : df[i] = df[1]

\* a row of the matrix as a vector of p_interval
AsVector(row) == [ndim |-> 1, rows |-> << [j \in DOMAIN row |-> row[j] * QDen] >>]

(* C10: for an ensemble matrix whose rows are all identical (a single row    *)
(* included) and any quantile triple, _calc_confint returns lower = median   *)
(* = upper = that row, each a vector with one entry per time column.         *)
C10_IdenticalRows ==
    (confint # NoConf /\ AllRowsEqual(ndf)) =>
        /\ confint.kind = "ok"
        /\ confint.lower = AsVector(ndf[1])
        /\ confint.dep_var = AsVector(ndf[1])
        /\ confint.upper = AsVector(ndf[1])
        /\ Len(confint.lower.rows[1]) = NumTimes(ndf)

\* twice the trapezoidal integral of C over t
Trapezoid2(t, C) ==
    LET Part[i \in 0..(Len(t) - 1)] ==
            IF i = 0 THEN 0
            ELSE Part[i - 1] + (t[i + 1] - t[i]) * (C[i] + C[i + 1])
    IN  Part[Len(t) - 1]

(* C11: for every curve with at least two points, calc_AUC with inf=False    *)
(* returns the trapezoidal integral of C over t, whatever the                *)
(* elimination-rate fit does, and with inf=True that integral plus           *)
(* C[last] / kelim.                                                          *)
C11_AucIsTrapezoid ==
    (pk_out.op = "calc_AUC" /\ Len(pk_t) >= 2) =>
        /\ pk_out.out.kind = "ok"
        /\ pk_out.out.val.trapz2 = Trapezoid2(pk_t, pk_C)
        /\ ~pk_out.args.inf => pk_out.out.val.tail = Rat(0, 1)
        /\ pk_out.args.inf =>
               LET ke == calc_elim_rate_const(pk_t, pk_C, pk_out.args.ninterp).val
               IN  pk_out.out.val.tail = Rat(pk_C[Len(pk_C)] * ke.den, ke.num)

\* the indices of the points with a positive concentration
Positive(C) == {i \in DOMAIN C : C[i] > 0}

(* C12: calc_elim_rate_const fails with an insufficient-data error whenever  *)
(* fewer than ninterp points with C > 0 remain, and never hands polyfit a    *)
(* window of fewer than ninterp points.                                      *)
C12_InsufficientDataFails ==
    pk_out.op = "calc_elim_rate_const" =>
        /\ Cardinality(Positive(pk_C)) < pk_out.args.ninterp
               => pk_out.out.kind = "InsufficientDataError"
        /\ pk_out.out.kind = "ok" => Len(pk_out.out.fit_t) >= pk_out.args.ninterp

\* the indices of the last n positive points, in ascending order
LastPositive(C, n) ==
    LET W == {i \in Positive(C) : Cardinality({j \in Positive(C) : j > i}) < n}
    IN  [k \in 1..Cardinality(W) |->
            CHOOSE i \in W : Cardinality({j \in W : j < i}) = k - 1]

(* C13: the points calc_elim_rate_const fits are exactly the last ninterp    *)
(* points, in original order, of the subsequence of (t, C) pairs with C > 0, *)
(* each time paired with the logarithm of its own concentration.             *)
C13_FitWindow ==
    pk_out.op = "calc_elim_rate_const" =>
        LET idx == LastPositive(pk_C, pk_out.args.ninterp)
        IN  /\ pk_out.out.fit_t = [k \in DOMAIN idx |-> pk_t[idx[k]]]
            /\ pk_out.out.fit_lnC = [k \in DOMAIN idx |-> Log2(pk_C[idx[k]])]

\* of (0, 4), (1, 0), (3, 2) with ninterp = 2, the points (0, 4) and (3, 2)
C13_Witness ==
    /\ pk_out.op = "calc_elim_rate_const"
    /\ pk_out.args.ninterp = 2
    /\ pk_t = << 0, 1, 3 >>
    /\ pk_C = << 4, 0, 2 >>
    /\ pk_out.out.fit_t = << 0, 3 >>
    /\ pk_out.out.fit_lnC = << 2, 1 >>

\* the smallest index at which C is largest
FirstMaxIndex(C) ==
    LET top == {i \in DOMAIN C : \A j \in DOMAIN C : C[j] <= C[i]}
    IN  CHOOSE i \in top : \A j \in top : i <= j

(* C14: for every non-empty curve, calc_cmax returns the maximum             *)
(* concentration and calc_tmax the time at the index of its first            *)
(* occurrence; both refer to that same index.                                *)
C14_CmaxTmaxFirstMaximum ==
    /\ pk_out.op = "calc_cmax" =>
           /\ pk_out.out = [kind |-> "ok", val |-> pk_C[FirstMaxIndex(pk_C)]]
           /\ \A j \in DOMAIN pk_C : pk_C[j] <= pk_out.out.val
    /\ pk_out.op = "calc_tmax" =>
           pk_out.out = [kind |-> "ok", val |-> pk_t[FirstMaxIndex(pk_C)]]

\* the maximum 2 stands at the times 1 and 3: tmax is 1
C14_Witness ==
    /\ pk_out.op = "calc_tmax"
    /\ pk_t = << 0, 1, 3 >>
    /\ pk_C = << 1, 2, 2 >>
    /\ pk_out.out.val = 1

SevenParams == {"AUC", "AUC_inf", "MRT", "Cmax", "tmax", "kelim", "t_half"}

(* C15: calc_all_pk returns exactly the seven parameters AUC, AUC_inf, MRT,  *)
(* Cmax, tmax, kelim and t_half when no dose is supplied, and those seven    *)
(* plus clearance and volume of distribution whenever a dose is supplied,    *)
(* whatever its numeric value.                                               *)
C15_DoseAddsClearanceAndVolume ==
    (pk_out.op = "calc_all_pk" /\ pk_out.out.kind = "ok") =>
        DictKeys(pk_out.out.val) =
            IF pk_out.args.dose.none THEN SevenParams
            ELSE SevenParams \union {"clearance", "volume_of_distribution"}

----------------------------------------------------------------------------
(* Residuals *)

\* the rows of a table that carry one identifier, in the order of the table
OfIdent(table, ident) == SelectSeq(table, LAMBDA r : r.ident = ident)

\* The simulated curve at time x as a fraction: on the segment that holds x
\* the weighted mean of its two end values, and the nearest end value of the
\* curve outside its time range.
CurveAt(curve, x) ==
    LET n == Len(curve)
        Holds(k) == curve[k].time <= x /\ x <= curve[k + 1].time
    IN  IF \E k \in 1..(n - 1) : Holds(k)
        THEN LET k == CHOOSE k \in 1..(n - 1) : Holds(k)
             IN  [num |-> curve[k].dep_var * (curve[k + 1].time - x)
                            + curve[k + 1].dep_var * (x - curve[k].time),
                  den |-> curve[k + 1].time - curve[k].time]
        ELSE IF x < curve[1].time
             THEN [num |-> curve[1].dep_var, den |-> 1]
             ELSE [num |-> curve[n].dep_var, den |-> 1]

\* two fractions with the same finite value
SameValue(a, b) == a.den # 0 /\ b.den # 0 /\ a.num * b.den = b.num * a.den

\* C16: for every observed point with a non-zero observed value, the residual
\* that _calc_df_diff reports at that time is (observed - interpolated) /
\* observed, where interpolated is the simulated curve of the same identifier
\* evaluated at the observed time.
C16_ResidualIsRelativeDifference ==
    diff_df.kind = "ok" =>
        \A ident \in {sdf[i].ident : i \in DOMAIN sdf} :
            LET obs == OfIdent(ddf, ident)
                rep == OfIdent(diff_df.rows, ident)
                sim == OfIdent(sdf, ident)
            IN  /\ Len(rep) = Len(obs)
                /\ \A k \in DOMAIN obs :
                       obs[k].dep_var # 0 =>
                           LET at == CurveAt(sim, obs[k].time)
                           IN  /\ rep[k].time = obs[k].time
                               /\ rep[k].measure = OutVar
                               /\ SameValue(rep[k].dep_var_diff,
                                            [num |-> obs[k].dep_var * at.den - at.num,
                                             den |-> obs[k].dep_var * at.den])

\* observed [2, 4] at times 2 and 3 against a simulated curve that is 2
\* throughout: the residuals are 0 and 1/2
C16_Witness ==
    /\ diff_df.kind = "ok"
    /\ sdf = << [ident |-> "s01", time |-> 1, dep_var |-> 2],
                [ident |-> "s01", time |-> 3, dep_var |-> 2] >>
    /\ ddf = << [ident |-> "s01", time |-> 2, dep_var |-> 2],
                [ident |-> "s01", time |-> 3, dep_var |-> 4] >>
    /\ Len(diff_df.rows) = 2
    /\ SameValue(diff_df.rows[1].dep_var_diff, [num |-> 0, den |-> 1])
    /\ SameValue(diff_df.rows[2].dep_var_diff, [num |-> 1, den |-> 2])

\* a residual without a value: the division had a zero divisor
Undefined(x) == x.den = 0

\* C17: when an observed value is 0, _calc_df_diff does not raise, the residual
\* at that point is an undefined value, and no undefined residual is among the
\* points handed to the residual plot.
C17_UndefinedResidualsFiltered ==
    (sdf # << >> /\ ddf # << >>) =>
        /\ diff_df.kind \in {"none", "ok"}
        /\ diff_df.kind = "ok" =>
               /\ \A ident \in {sdf[i].ident : i \in DOMAIN sdf} :
                      LET obs == OfIdent(ddf, ident)
                          rep == OfIdent(diff_df.rows, ident)
                      IN  \A k \in DOMAIN obs :
                              obs[k].dep_var = 0 => Undefined(rep[k].dep_var_diff)
               /\ \A i \in DOMAIN plotted : ~Undefined(plotted[i].dep_var_diff)

----------------------------------------------------------------------------
(* The assembled simulation table *)

\* the composite key of a record of the simulation table
SimKey(r) == << r.ident, r.measure, r.time >>

\* C18: after _process_sim has processed a sequence of output files, the table
\* it returns has no two records with the same (ident, measure, time) key: a
\* repeated key ends in an error, never in a returned table.
C18_NoDuplicateKeysAccepted ==
    sim_status = "returned" =>
        \A i, j \in DOMAIN all_sim_df :
            SimKey(all_sim_df[i]) = SimKey(all_sim_df[j]) => i = j

----------------------------------------------------------------------------
(* Tidy reshaping *)

\* The wide table that was melted, with its key column: "Time" for the table
\* of a forward run, the added "ident" column for a table of PK parameters.
WideKeyCol == IF wide_df.kind = "fwd" THEN "Time" ELSE "ident"

WideTable ==
    IF wide_df.kind = "fwd" THEN wide_df.frame
    ELSE Frame(Append(wide_df.frame.cols, "ident"),
               [i \in DOMAIN wide_df.frame.rows |->
                   Append(wide_df.frame.rows[i], wide_df.ident)])

WideValueCols == SelectSeq(WideTable.cols, LAMBDA c : c # WideKeyCol)

\* the long records as (row key, column, value)
LongTriples ==
    IF wide_df.kind = "fwd"
    THEN [n \in DOMAIN tidy_df |->
             << tidy_df[n].time, tidy_df[n].measure, tidy_df[n].dep_var >>]
    ELSE [n \in DOMAIN tidy_df |->
             << tidy_df[n].ident, tidy_df[n].param, tidy_df[n].value >>]

\* the rows of the wide table have pairwise distinct keys
UniqueWideKeys ==
    LET k == ColIndex(WideTable, WideKeyCol)
    IN  \A i, j \in DOMAIN WideTable.rows :
            WideTable.rows[i][k] = WideTable.rows[j][k] => i = j

\* pivoting the long records back: the cell at (row key, column) is the value
\* of the records that carry this key
PivotCell(key, col) ==
    {LongTriples[n][3] : n \in {m \in DOMAIN LongTriples :
                                    LongTriples[m][1] = key /\ LongTriples[m][2] = col}}

\* C19: for every wide table with unique keys, melting it and pivoting the
\* long records back on the same keys reproduces every original value at its
\* key: there is one record per row and value column, and the records of a key
\* carry the value of its cell and no other.
C19_MeltPivotRoundTrip ==
    (tidy_df # NotMelted /\ UniqueWideKeys) =>
        LET k == ColIndex(WideTable, WideKeyCol)
        IN  /\ Len(LongTriples) = Len(WideTable.rows) * Len(WideValueCols)
            /\ \A i \in DOMAIN WideTable.rows : \A j \in DOMAIN WideValueCols :
                   PivotCell(WideTable.rows[i][k], WideValueCols[j])
                       = {WideTable.rows[i][ColIndex(WideTable, WideValueCols[j])]}
            /\ \A n \in DOMAIN LongTriples :
                   /\ \E i \in DOMAIN WideTable.rows : WideTable.rows[i][k] = LongTriples[n][1]
                   /\ LongTriples[n][2] \in Range(WideValueCols)

\* a forward table of two times and two measures, melted into four records
C19_Witness ==
    /\ wide_df.kind = "fwd"
    /\ wide_df.frame = Frame(<< "Time", "C_central", "A_gut" >>,
                             << << 0, 1, 0 >>, << 1, 0, 1 >> >>)
    /\ UniqueWideKeys
    /\ tidy_df = << [time |-> 0, measure |-> "C_central", dep_var |-> 1],
                    [time |-> 1, measure |-> "C_central", dep_var |-> 0],
                    [time |-> 0, measure |-> "A_gut", dep_var |-> 0],
                    [time |-> 1, measure |-> "A_gut", dep_var |-> 1] >>

----------------------------------------------------------------------------
(* Interaction records *)

\* the unordered pairs of k parameters, written with i < j, indices from 0
AscPairs(k) == {p \in (0..(k - 1)) \X (0..(k - 1)) : p[1] < p[2]}

\* the position of a parameter name among the model parameters, from 0
ParamIndex(name) == (CHOOSE i \in DOMAIN mparams : mparams[i] = name) - 1

\* the pair of parameters an interaction record is labelled with
PairOf(rec) == << ParamIndex(rec.model_param_1), ParamIndex(rec.model_param_2) >>

\* (i, j) before (i', j')
PairBefore(p, q) == p[1] < q[1] \/ (p[1] = q[1] /\ p[2] < q[2])

\* the S2 records of one PK parameter are one per pair i < j, in ascending
\* order, each with the value S2[i, j]
S2RecordsRight(cname) ==
    LET k == Len(mparams)
        recs == SelectSeq(sa_interact, LAMBDA r : r.pk_param = cname)
    IN  /\ Len(recs) = Cardinality(AscPairs(k))
        /\ \A m \in DOMAIN recs :
               /\ recs[m].sens_level = "S2"
               /\ recs[m].model_param_1 \in Range(mparams)
               /\ recs[m].model_param_2 \in Range(mparams)
               /\ PairOf(recs[m]) \in AscPairs(k)
               /\ recs[m].value = Analyze(cname, k, setpts_Y).S2[PairOf(recs[m])]
        /\ \A m, n \in DOMAIN recs : m < n => PairBefore(PairOf(recs[m]), PairOf(recs[n]))

\* C20: for every number k >= 1 of model parameters, calc_sensitivity
\* completes, and for every PK parameter it emits exactly C(k,2) interaction
\* records, one per pair i < j in ascending (i, j) order, labelled with the
\* names of the two parameters and carrying S2[i, j].
C20_InteractionRecords ==
    /\ sens_status \in {"idle", "called", "running", "returned"}
    /\ sens_status = "returned" => \A c \in Range(PkLabels) : S2RecordsRight(c)

----------------------------------------------------------------------------
(* Setting up the sensitivity analysis *)

\* SensitivityAnalysis.__init__ has returned
SaConstructed == wf_pc \in {"write_samples", "run_sim", "analyze", "SamplerError",
                            "AttributeError"}

\* C21: in the table of sensitivity methods no sampler name is paired with two
\* different analyzers, and a SensitivityAnalysis that was set up holds a
\* (sampler, analyzer) pair of the table.
C21_OneAnalyzerPerSampler ==
    SaConstructed =>
        /\ \A i, j \in DOMAIN SA_LIB_METHODS :
               SA_LIB_METHODS[i][2][1] = SA_LIB_METHODS[j][2][1]
                   => SA_LIB_METHODS[i][2][2] = SA_LIB_METHODS[j][2][2]
        /\ sa_pair \in {SA_LIB_METHODS[i][2] : i \in DOMAIN SA_LIB_METHODS}

\* a configuration error: a method name the table does not hold, or a
\* setpoints file without a marked line
ConfigError ==
    \/ sa_method \notin {SA_LIB_METHODS[i][1] : i \in DOMAIN SA_LIB_METHODS}
    \/ \A i \in DOMAIN setpts_file : ~setpts_file[i].marked

\* C22: with a configuration error the construction of SensitivityAnalysis
\* fails, no sample file is ever written and no simulation ever run, and the
\* construction is not tried again.
C22_ConfigErrorFailsFirst ==
    (unit = "setup" /\ ConfigError) =>
        /\ wf_pc \in {"convert", "construct", "KeyError", "SyntaxError"}
        /\ samples_written = 0
        /\ sims_run = 0
        /\ ctor_calls <= 1
        /\ ctor_calls = 1 => wf_pc \in {"KeyError", "SyntaxError"}

\* a file of unmarked lines only: the construction has failed
C22_Witness ==
    /\ unit = "setup"
    /\ ConfigError
    /\ sa_method = "sobol"
    /\ Len(setpts_file) = 2
    /\ wf_pc = "SyntaxError"
    /\ ctor_calls = 1
    /\ samples_written = 0
    /\ sims_run = 0

\* C23: _extract_problem yields a problem only for a payload of the shape
\* {num_vars, names, bounds} with num_vars = len(names) and one bounds pair per
\* name, and the text of the marked lines is never executed as code.
C23_ProblemIsValidated ==
    /\ ~code_executed
    /\ SaConstructed =>
           /\ sa_problem.kind = "dict"
           /\ sa_problem.num_vars = Len(sa_problem.names)
           /\ Len(sa_problem.bounds) = Len(sa_problem.names)

----------------------------------------------------------------------------
(* The batch of output files *)

\* the errors the PK computation of a unit ends with
PkErrorKinds == {"TypeError", "LinAlgError"}

\* C24: when the PK computation of one (identifier, variable) unit fails with
\* a numeric error, the batch of files is not ended by it: _process_sim goes
\* on and returns the results of the other units.
C24_PkFailureSkipsUnit ==
    /\ sim_status \notin PkErrorKinds
    /\ (sim_status = "returned" /\ files_done > 0) => all_sim_df # << >>

\* C27: _extract_id returns the identifier the file name carries, and the
\* files that carry none receive pairwise distinct identifiers, the next of the
\* id list each time.
C27_FilesGetDistinctIds ==
    /\ \A k \in DOMAIN file_ids :
           file_ids[k].name_ident # "none" => file_ids[k].id_ = file_ids[k].name_ident
    /\ \A i, j \in DOMAIN file_ids :
           (file_ids[i].name_ident = "none" /\ file_ids[j].name_ident = "none"
               /\ i # j) => file_ids[i].id_ # file_ids[j].id_

----------------------------------------------------------------------------
(* The stored sensitivity result *)

C26_IdMapReadOnly ==
    [][constructed => (id_map' = id_map /\ rev_id_map' = rev_id_map)]_vars

\* _extract_id has been called on a file name without identifier, it has
\* returned the last key, and the map still holds every subject
C26_Witness ==
    /\ constructed
    /\ Len(pkdata_ids) >= 2
    /\ analyzer_call.op = "_extract_id"
    /\ analyzer_call.arg = << >>
    /\ analyzer_call.out.val = POPULATION_KEYWORD
    /\ id_map = _create_id_mapping(pkdata_ids, TRUE)
    /\ rev_id_map = Reversed(id_map)

\* the residual of the observed record o against the simulated curve sim, with
\* the curve held at its first value before its first time and at its last
\* value after its last time
ClampedResidual(o, sim) ==
    LET n == Len(sim)
        at == IF o.time <= sim[1].time THEN [num |-> sim[1].dep_var, den |-> 1]
              ELSE IF o.time >= sim[n].time THEN [num |-> sim[n].dep_var, den |-> 1]
              ELSE CurveAt(sim, o.time)
    IN  [num |-> o.dep_var * at.den - at.num, den |-> o.dep_var * at.den]

\* the identifiers that have both simulated and observed records
InBoth == {sdf[i].ident : i \in DOMAIN sdf} \intersect {ddf[i].ident : i \in DOMAIN ddf}

\* the observed records whose identifier has a simulated curve
ObsInBoth == SelectSeq(ddf, LAMBDA r : r.ident \in InBoth)

\* MCAnalyzer._calc_df_diff: one record per observed record of an identifier
\* in both tables, its value taken from that identifier's curve alone
McDiffOwnPoints ==
    diff_df.kind = "ok" =>
        /\ Len(diff_df.rows) = Len(ObsInBoth)
        /\ \A i \in DOMAIN diff_df.rows : diff_df.rows[i].ident \in InBoth
        /\ \A ident \in InBoth :
               LET obs == OfIdent(ddf, ident)
                   rep == OfIdent(diff_df.rows, ident)
                   sim == OfIdent(sdf, ident)
               IN  /\ Len(rep) = Len(obs)
                   /\ \A k \in DOMAIN obs :
                          /\ rep[k].time = obs[k].time
                          /\ obs[k].dep_var # 0 =>
                                 SameValue(rep[k].dep_var_diff,
                                           ClampedResidual(obs[k], sim))

\* FwdAnalyzer._calc_df_diff: the same, for records that carry no identifier
FwdDiffOwnPoints ==
    fwd_diff_df.kind = "ok" =>
        /\ Len(fwd_diff_df.rows) = Len(ObsInBoth)
        /\ \A i \in DOMAIN fwd_diff_df.rows :
               \E k \in DOMAIN ObsInBoth :
                   /\ fwd_diff_df.rows[i].time = ObsInBoth[k].time
                   /\ ObsInBoth[k].dep_var # 0 =>
                          SameValue(fwd_diff_df.rows[i].dep_var_diff,
                                    ClampedResidual(ObsInBoth[k],
                                                    OfIdent(sdf, ObsInBoth[k].ident)))

\* C28: _calc_df_diff gives residual records only for the identifiers that
\* have both simulated and observed records; the residuals of an identifier
\* come from its own simulated points and its own observed points alone, and
\* an observed time outside the simulated range is evaluated at the nearest
\* end value of the simulated curve.
C28_ResidualsFromOwnPoints ==
    McDiffOwnPoints /\ FwdDiffOwnPoints

\* every posterior file has a run id and no two have the same
RunIdsDistinct ==
    /\ \A i \in DOMAIN sp_files : get_run_id(sp_files[i]).kind = "ok"
    /\ \A i, j \in DOMAIN sp_files :
           get_run_id(sp_files[i]).val = get_run_id(sp_files[j]).val => i = j

\* the file name of the path holds the run id as one of its pieces
CarriesRunId(path, run_id) == \E n \in DOMAIN path.name : path.name[n] = run_id

\* C29: in setpts_analysis, posterior files with pairwise distinct run ids get
\* pairwise distinct input files and pairwise distinct output files, each path
\* carrying the run id of its posterior; no conversion overwrites the input
\* file of another run, and the analyzer receives one distinct output file per
\* posterior.
C29_DistinctFilesPerRun ==
    (unit = "setpts" /\ RunIdsDistinct) =>
        /\ IsInjective(sim_infiles)
        /\ IsInjective(sim_outfiles)
        /\ \A i \in DOMAIN sim_infiles :
               /\ CarriesRunId(sim_infiles[i], get_run_id(sp_files[i]).val)
               /\ CarriesRunId(sim_outfiles[i], get_run_id(sp_files[i]).val)
        /\ ~overwritten
        /\ sp_pc = "analyze" =>
               /\ Len(setpts_outfiles) = Len(sp_files)
               /\ IsInjective(setpts_outfiles)

\* C30: all SimInfo instances share one state: a value stored through any
\* instance (sim_params, pkdata, sim_geninfo, an entry of sim_dirs, an output
\* plot or table) is read back through every instance, and constructing a
\* further instance leaves every stored value as it was.
C30_SharedStateKept ==
    unit = "siminfo" =>
        \A inst \in 1..n_instances :
            LET d == DictOf(inst)
            IN  /\ stored.sim_params # Unset => d._sim_params = stored.sim_params
                /\ stored.pkdata # Unset => d._pkdata = stored.pkdata
                /\ stored.sim_geninfo # Unset => d._sim_geninfo = stored.sim_geninfo
                /\ \A k \in DirKeys :
                       stored.sim_dirs[k] # Unset => d._sim_dirs[k] = stored.sim_dirs[k]
                /\ \A k \in PlotKeys :
                       stored.output_plots[k] # Unset =>
                           d._output_plots[k] = stored.output_plots[k]
                /\ \A k \in TableKeys :
                       stored.output_tables[k] # Unset =>
                           d._output_tables[k] = stored.output_tables[k]

====
